---- MODULE Spec2Model ----
(***************************************************************************)
(* Model of the equity-calculator projection engine and its settings       *)
(* store (React context).                                                  *)
(*                                                                         *)
(* Numbers.  The program computes in IEEE doubles.  Here every amount of   *)
(* money is an integer number of euro cents, every rate, percentage or     *)
(* growth factor an integer number of 1/100000 (RateScale), every share    *)
(* count an integer number of 1/1000 share (ShareScale).  A product or a   *)
(* quotient is rounded down to the unit of its result, so rounding exists  *)
(* in the model as it does in the program, at a coarser grain.  TLC        *)
(* integers are 32 bits wide: products are formed limb by limb.            *)
(***************************************************************************)
EXTENDS Integers, Sequences, FiniteSets, TLC

VARIABLES
  data,          \* useState<FinancialData>: the settings snapshot
  projections,   \* useState<FinancialProjections>: the published arrays
  metrics,       \* useState<DashboardMetrics>
  saved,         \* localStorage item 'financialData': << >> or <<snapshot>>
  pc,            \* position of the effect: "idle", or the pipeline step to run next
  run,           \* locals of the recalculate call in progress
  now,           \* Date.now(), advanced by every user event
  setupCompleted,\* localStorage item 'setupCompleted' = 'true'
  publishedFrom, \* history: << >> or <<the snapshot the published arrays came from>>
  fnCall,        \* arguments of a calculator called on its own
  fnResult       \* its result

vars == <<data, projections, metrics, saved, pc, run, now, setupCompleted,
          publishedFrom, fnCall, fnResult>>

RateScale == 10^5
ShareScale == 10^3
Cents == 10^2

\* an amount of whole euros, in cents
Eur(e) == e * Cents

\* 10^n for the digit counts used below
SmallPow10(n) == 10^n

Max(a, b) == IF a >= b THEN a ELSE b
Min(a, b) == IF a <= b THEN a ELSE b

\* floor(a * r / RateScale): amount * rate, rate * rate
MulRate(a, r) ==
  LET hi == a \div RateScale
      lo == a % RateScale
      q  == lo \div 1000
      m  == lo % 1000
  IN  hi * r + ((q * r + ((m * r) \div 1000)) \div 100)

\* floor(a * b / d) for 0 <= b, 0 < d, limb by limb (d * b stays below 2^31)
MulDiv(a, b, d) == (a \div d) * b + (((a % d) * b) \div d)

RECURSIVE DivDigits(_, _, _)
DivDigits(r, b, n) ==
  IF n = 0 THEN 0
  ELSE LET t == r * 10
       IN  (t \div b) * SmallPow10(n - 1) + DivDigits(t % b, b, n - 1)

\* floor(a * 10^n / b) by long division, b > 0
DivScaled(a, b, n) == (a \div b) * SmallPow10(n) + DivDigits(a % b, b, n)

\* a / b as a rate (1/RateScale units)
DivRate(a, b) == DivScaled(a, b, 5)

RECURSIVE PowRate(_, _)
\* Math.pow(base, n) for a factor base (1/RateScale units) and an integer n
PowRate(base, n) ==
  IF n = 0 THEN RateScale
  ELSE IF n < 0 THEN DivRate(RateScale, PowRate(base, 0 - n))
  ELSE MulRate(PowRate(base, n - 1), base)

RECURSIVE SumSeq(_)
\* Array.reduce((sum, x) => sum + x, 0)
SumSeq(s) == IF Len(s) = 0 THEN 0 ELSE SumSeq(SubSeq(s, 1, Len(s) - 1)) + s[Len(s)]

(***************************************************************************)
(* Tax engine (taxCalculations.ts)                                         *)
(***************************************************************************)

\* upperBound: null of the highest bracket
NULL == 0 - 1

NETHERLANDS_TAX_CONFIG_2025 ==
  [ year |-> 2025,
    incomeTaxBrackets |-> <<
      [lowerBound |-> Eur(0),     upperBound |-> Eur(35472), rate |-> 9420],
      [lowerBound |-> Eur(35472), upperBound |-> Eur(69399), rate |-> 37070],
      [lowerBound |-> Eur(69399), upperBound |-> NULL,       rate |-> 49500] >>,
    socialContributions |-> <<
      [name |-> "Social Security", rate |-> 27650, maxIncome |-> Eur(35472)] >> ]

GENERAL_TAX_CREDIT_2025 == 288800
LABOUR_TAX_CREDIT_MAX_2025 == 426000
LABOUR_TAX_CREDIT_THRESHOLD_LOW == 1035100
LABOUR_TAX_CREDIT_THRESHOLD_MID == 2235700
LABOUR_TAX_CREDIT_THRESHOLD_HIGH == 3665000
LABOUR_TAX_CREDIT_PHASEOUT_END == 10934700

calculateLabourTaxCredit(grossIncome) ==
  IF grossIncome <= LABOUR_TAX_CREDIT_THRESHOLD_LOW THEN
    MulRate(grossIncome, 4541)
  ELSE IF grossIncome <= LABOUR_TAX_CREDIT_THRESHOLD_MID THEN
    LET base == Eur(470)
        additional == MulRate(grossIncome - LABOUR_TAX_CREDIT_THRESHOLD_LOW, 28461)
    IN  base + additional
  ELSE IF grossIncome <= LABOUR_TAX_CREDIT_THRESHOLD_HIGH THEN
    LET base == Eur(3887)
        additional == MulRate(grossIncome - LABOUR_TAX_CREDIT_THRESHOLD_MID, 2610)
    IN  base + additional
  ELSE IF grossIncome <= LABOUR_TAX_CREDIT_PHASEOUT_END THEN
    LET reduction == MulRate(grossIncome - LABOUR_TAX_CREDIT_THRESHOLD_HIGH, 5860)
    IN  Max(0, LABOUR_TAX_CREDIT_MAX_2025 - reduction)
  ELSE 0

calculateGeneralTaxCredit(taxableIncome) ==
  LET phaseoutStart == Eur(21318)
      phaseoutEnd == Eur(69399)
  IN  IF taxableIncome <= phaseoutStart THEN GENERAL_TAX_CREDIT_2025
      ELSE IF taxableIncome <= phaseoutEnd THEN
        LET reduction == MulRate(taxableIncome - phaseoutStart, 6007)
        IN  Max(0, GENERAL_TAX_CREDIT_2025 - reduction)
      ELSE 0

\* one iteration of the bracket loop: the tax the bracket adds
\* a bracket that taxes only the income that ends inside it
BracketTaxOnlyContaining(taxableIncome, bracket) ==
  IF /\ taxableIncome > bracket.lowerBound
     /\ (bracket.upperBound = NULL \/ taxableIncome <= bracket.upperBound)
  THEN MulRate(taxableIncome - bracket.lowerBound, bracket.rate)
  ELSE 0

BracketTax(taxableIncome, bracket) ==
  IF taxableIncome > bracket.lowerBound THEN
    LET incomeInBracket ==
          (IF bracket.upperBound = NULL THEN taxableIncome
           ELSE Min(taxableIncome, bracket.upperBound)) - bracket.lowerBound
    IN  MulRate(incomeInBracket, bracket.rate)
  ELSE 0

RECURSIVE calculateIncomeTax(_, _)
calculateIncomeTax(taxableIncome, brackets) ==
  IF Len(brackets) = 0 THEN 0
  ELSE calculateIncomeTax(taxableIncome, SubSeq(brackets, 1, Len(brackets) - 1))
       + BracketTax(taxableIncome, brackets[Len(brackets)])

RECURSIVE calculateSocialContributions(_, _)
calculateSocialContributions(taxableIncome, contributions) ==
  IF Len(contributions) = 0 THEN 0
  ELSE LET contribution == contributions[Len(contributions)]
           incomeSubjectToContribution == Min(taxableIncome, contribution.maxIncome)
       IN  calculateSocialContributions(taxableIncome,
                                        SubSeq(contributions, 1, Len(contributions) - 1))
           + MulRate(incomeSubjectToContribution, contribution.rate)

RECURSIVE MarginalIncomeTaxRate(_, _, _, _)
\* the bracket loop of calculateMarginalTaxRate from bracket k on, with the
\* rate found so far
MarginalIncomeTaxRate(taxableIncome, brackets, k, incomeTaxRate) ==
  IF k > Len(brackets) THEN incomeTaxRate
  ELSE LET bracket == brackets[k]
       IN  IF taxableIncome >= bracket.lowerBound
              /\ (bracket.upperBound = NULL \/ taxableIncome < bracket.upperBound)
           THEN bracket.rate
           ELSE MarginalIncomeTaxRate(taxableIncome, brackets, k + 1,
                  IF bracket.upperBound = NULL THEN bracket.rate ELSE incomeTaxRate)

RECURSIVE MarginalSocialRate(_, _)
MarginalSocialRate(taxableIncome, contributions) ==
  IF Len(contributions) = 0 THEN 0
  ELSE LET contribution == contributions[Len(contributions)]
       IN  MarginalSocialRate(taxableIncome,
                              SubSeq(contributions, 1, Len(contributions) - 1))
           + (IF taxableIncome < contribution.maxIncome THEN contribution.rate ELSE 0)

\* a marginal rate that adds every social contribution, capped or not
calculateMarginalTaxRateUncapped(taxableIncome, brackets, socialContributions) ==
  MarginalIncomeTaxRate(taxableIncome, brackets, 1, 0)
  + SumSeq([k \in 1..Len(socialContributions) |-> socialContributions[k].rate])

calculateMarginalTaxRate(taxableIncome, brackets, socialContributions) ==
  MarginalIncomeTaxRate(taxableIncome, brackets, 1, 0)
  + MarginalSocialRate(taxableIncome, socialContributions)

\* pensionContributionsOverride: undefined
UNDEFINED == 0 - 2

\* the results of a division by zero: 0 / 0 and x / 0 for x > 0
NaN == 0 - 3
INFINITY == 0 - 4

\* a / b as the program's number: a rate, NaN or Infinity (a >= 0, b >= 0)
Ratio(a, b) == IF b # 0 THEN DivRate(a, b) ELSE IF a = 0 THEN NaN ELSE INFINITY

\* a tax whose labour credit is taken on the taxable income
calculateTaxLabourOnTaxable(grossIncome, pensionPercentage, has30PercentRuling, year, taxConfig, pensionContributionsOverride) ==
  LET pensionContributions ==
        IF pensionContributionsOverride # UNDEFINED
        THEN pensionContributionsOverride
        ELSE MulRate(grossIncome, pensionPercentage)
      incomeAfterPension == grossIncome - pensionContributions
      taxableIncome ==
        IF has30PercentRuling THEN MulRate(incomeAfterPension, 70000)
        ELSE incomeAfterPension
      incomeTax == calculateIncomeTax(taxableIncome, taxConfig.incomeTaxBrackets)
      socialContributions ==
        calculateSocialContributions(taxableIncome, taxConfig.socialContributions)
      generalTaxCredit == calculateGeneralTaxCredit(taxableIncome)
      labourTaxCredit == calculateLabourTaxCredit(taxableIncome)
      totalTaxBeforeCredits == incomeTax + socialContributions + pensionContributions
      taxAfterCredits ==
        Max(pensionContributions,
            incomeTax + socialContributions - generalTaxCredit - labourTaxCredit)
      totalTax == taxAfterCredits + pensionContributions
      netIncome == grossIncome - totalTax
      effectiveTaxRate == Ratio(totalTax, grossIncome)
      marginalTaxRate ==
        calculateMarginalTaxRate(taxableIncome, taxConfig.incomeTaxBrackets,
                                 taxConfig.socialContributions)
  IN  [ year |-> year,
        grossIncome |-> grossIncome,
        taxableIncome |-> taxableIncome,
        incomeTax |-> incomeTax,
        socialContributions |-> socialContributions,
        pensionContributions |-> pensionContributions,
        generalTaxCredit |-> generalTaxCredit,
        labourTaxCredit |-> labourTaxCredit,
        totalTaxBeforeCredits |-> totalTaxBeforeCredits,
        totalTax |-> totalTax,
        netIncome |-> netIncome,
        effectiveTaxRate |-> effectiveTaxRate,
        marginalTaxRate |-> marginalTaxRate ]

\* a tax whose credits may reduce the bill below the pension contributions
calculateTaxNoFloor(grossIncome, pensionPercentage, has30PercentRuling, year, taxConfig, pensionContributionsOverride) ==
  LET pensionContributions ==
        IF pensionContributionsOverride # UNDEFINED
        THEN pensionContributionsOverride
        ELSE MulRate(grossIncome, pensionPercentage)
      incomeAfterPension == grossIncome - pensionContributions
      taxableIncome ==
        IF has30PercentRuling THEN MulRate(incomeAfterPension, 70000)
        ELSE incomeAfterPension
      incomeTax == calculateIncomeTax(taxableIncome, taxConfig.incomeTaxBrackets)
      socialContributions ==
        calculateSocialContributions(taxableIncome, taxConfig.socialContributions)
      generalTaxCredit == calculateGeneralTaxCredit(taxableIncome)
      labourTaxCredit == calculateLabourTaxCredit(grossIncome)
      totalTax ==
        incomeTax + socialContributions - generalTaxCredit - labourTaxCredit
          + pensionContributions
  IN  [ year |-> year,
        grossIncome |-> grossIncome,
        taxableIncome |-> taxableIncome,
        incomeTax |-> incomeTax,
        socialContributions |-> socialContributions,
        pensionContributions |-> pensionContributions,
        generalTaxCredit |-> generalTaxCredit,
        labourTaxCredit |-> labourTaxCredit,
        totalTaxBeforeCredits |-> incomeTax + socialContributions + pensionContributions,
        totalTax |-> totalTax,
        netIncome |-> grossIncome - totalTax,
        effectiveTaxRate |-> Ratio(Max(0, totalTax), grossIncome),
        marginalTaxRate |->
          calculateMarginalTaxRate(taxableIncome, taxConfig.incomeTaxBrackets,
                                   taxConfig.socialContributions) ]

calculateTax(grossIncome, pensionPercentage, has30PercentRuling, year, taxConfig, pensionContributionsOverride) ==
  LET pensionContributions ==
        IF pensionContributionsOverride # UNDEFINED
        THEN pensionContributionsOverride
        ELSE MulRate(grossIncome, pensionPercentage)
      incomeAfterPension == grossIncome - pensionContributions
      taxableIncome ==
        IF has30PercentRuling THEN MulRate(incomeAfterPension, 70000)
        ELSE incomeAfterPension
      incomeTax == calculateIncomeTax(taxableIncome, taxConfig.incomeTaxBrackets)
      socialContributions ==
        calculateSocialContributions(taxableIncome, taxConfig.socialContributions)
      generalTaxCredit == calculateGeneralTaxCredit(taxableIncome)
      labourTaxCredit == calculateLabourTaxCredit(grossIncome)
      totalTaxBeforeCredits == incomeTax + socialContributions + pensionContributions
      taxAfterCredits ==
        Max(pensionContributions,
            incomeTax + socialContributions - generalTaxCredit - labourTaxCredit)
      totalTax == taxAfterCredits + pensionContributions
      netIncome == grossIncome - totalTax
      effectiveTaxRate == Ratio(totalTax, grossIncome)
      marginalTaxRate ==
        calculateMarginalTaxRate(taxableIncome, taxConfig.incomeTaxBrackets,
                                 taxConfig.socialContributions)
  IN  [ year |-> year,
        grossIncome |-> grossIncome,
        taxableIncome |-> taxableIncome,
        incomeTax |-> incomeTax,
        socialContributions |-> socialContributions,
        pensionContributions |-> pensionContributions,
        generalTaxCredit |-> generalTaxCredit,
        labourTaxCredit |-> labourTaxCredit,
        totalTaxBeforeCredits |-> totalTaxBeforeCredits,
        totalTax |-> totalTax,
        netIncome |-> netIncome,
        effectiveTaxRate |-> effectiveTaxRate,
        marginalTaxRate |-> marginalTaxRate ]

\* an RSU tax at the effective rate of the total income, not the marginal one
calculateRSUTaxEffective(salaryGrossIncome, rsuGrossValue, pensionPercentage, has30PercentRuling, year, taxConfig) ==
  LET totalIncome == salaryGrossIncome + rsuGrossValue
      taxResult == calculateTax(totalIncome, pensionPercentage, has30PercentRuling,
                                year, taxConfig, UNDEFINED)
      marginalTaxRate == taxResult.effectiveTaxRate
      taxOnRSU == MulRate(rsuGrossValue, marginalTaxRate)
      netRSUValue == rsuGrossValue - taxOnRSU
  IN  [ marginalTaxRate |-> marginalTaxRate,
        taxOnRSU |-> taxOnRSU,
        netRSUValue |-> netRSUValue ]

calculateRSUTax(salaryGrossIncome, rsuGrossValue, pensionPercentage, has30PercentRuling, year, taxConfig) ==
  LET totalIncome == salaryGrossIncome + rsuGrossValue
      taxResult == calculateTax(totalIncome, pensionPercentage, has30PercentRuling,
                                year, taxConfig, UNDEFINED)
      marginalTaxRate == taxResult.marginalTaxRate
      taxOnRSU == MulRate(rsuGrossValue, marginalTaxRate)
      netRSUValue == rsuGrossValue - taxOnRSU
  IN  [ marginalTaxRate |-> marginalTaxRate,
        taxOnRSU |-> taxOnRSU,
        netRSUValue |-> netRSUValue ]

(***************************************************************************)
(* RSU vesting (rsuCalculations, second half of taxCalculations.ts)        *)
(***************************************************************************)

\* grantValueEur / sharePriceEur as a share count (sharePriceEur > 0)
SharesOf(grantValueEur, sharePriceEur) == DivScaled(grantValueEur, sharePriceEur, 3)

\* shares * price as an amount of money
SharesValue(shares, priceEur) == MulDiv(shares, priceEur, ShareScale)

\* a vesting schedule that vests a grant of fraction 0 in full in the last
\* year of its vesting period
calculateSharesVestingInYearCliffAtEnd(grant, year) ==
  LET yearsFromGrant == year - grant.grantYear
  IN  IF yearsFromGrant < 0 \/ yearsFromGrant >= grant.vestingYears THEN 0
      ELSE IF grant.vestingPercentagePerYear = 0
           THEN (IF yearsFromGrant = grant.vestingYears - 1 THEN grant.grantShares ELSE 0)
           ELSE MulRate(grant.grantShares, grant.vestingPercentagePerYear)

\* a vesting schedule that still vests in the year after the vesting period
calculateSharesVestingInYearInclusive(grant, year) ==
  LET yearsFromGrant == year - grant.grantYear
  IN  IF yearsFromGrant < 0 \/ yearsFromGrant > grant.vestingYears THEN 0
      ELSE MulRate(grant.grantShares, grant.vestingPercentagePerYear)

calculateSharesVestingInYear(grant, year) ==
  LET yearsFromGrant == year - grant.grantYear
  IN  IF yearsFromGrant < 0 \/ yearsFromGrant >= grant.vestingYears THEN 0
      ELSE MulRate(grant.grantShares, grant.vestingPercentagePerYear)

RECURSIVE VestingTotals(_, _)
\* the grant loop of calculateRSUVestingByYear for one year:
\* totalSharesVested and weightedGrantPrice
VestingTotals(grants, year) ==
  IF Len(grants) = 0 THEN [totalSharesVested |-> 0, weightedGrantPrice |-> 0]
  ELSE LET before == VestingTotals(SubSeq(grants, 1, Len(grants) - 1), year)
           grant == grants[Len(grants)]
           sharesVesting == calculateSharesVestingInYear(grant, year)
       IN  IF sharesVesting > 0
           THEN [totalSharesVested |-> before.totalSharesVested + sharesVesting,
                 weightedGrantPrice |-> before.weightedGrantPrice
                                        + SharesValue(sharesVesting, grant.sharePriceEur)]
           ELSE before

\* salaryByYear.get(year) || 0
MapGet(map, key) == IF key \in DOMAIN map THEN map[key] ELSE 0

\* taxResults && taxResults[i]: an absent series is the empty one
HasEntry(series, i) == i + 1 <= Len(series)

\* a vesting price that has already grown once in the first projection year
VestingPriceOfGrownFirstYear(baseSharePrice, sharePriceGrowthRate, yearsFromBase) ==
  MulRate(baseSharePrice, PowRate(RateScale + sharePriceGrowthRate, yearsFromBase + 1))

\* baseSharePrice * Math.pow(1 + sharePriceGrowthRate, yearsFromBase)
VestingPriceOf(baseSharePrice, sharePriceGrowthRate, yearsFromBase) ==
  MulRate(baseSharePrice, PowRate(RateScale + sharePriceGrowthRate, yearsFromBase))

\* the body of the year loop of calculateRSUVestingByYear, for index i
RSUVestingYearOf(grants, startYear, i, salaryByYear, sharePriceGrowthRate, currentStockPrice, pensionPercentage, has30PercentRuling, taxResults, taxResultsWithoutRSU) ==
  LET baseSharePrice == currentStockPrice
      year == startYear + i
      totals == VestingTotals(grants, year)
      totalSharesVested == totals.totalSharesVested
      avgGrantPrice ==
        IF totalSharesVested > 0
        THEN MulDiv(totals.weightedGrantPrice, ShareScale, totalSharesVested)
        ELSE baseSharePrice
      yearsFromBase == year - startYear
      vestingPriceEur ==
        VestingPriceOf(baseSharePrice, sharePriceGrowthRate, yearsFromBase)
      grossRSUValue == SharesValue(totalSharesVested, vestingPriceEur)
      stockAppreciation == SharesValue(totalSharesVested, vestingPriceEur - avgGrantPrice)
      appreciationPercentage ==
        IF avgGrantPrice > 0 THEN DivRate(vestingPriceEur - avgGrantPrice, avgGrantPrice)
        ELSE 0
      salaryGrossIncome == MapGet(salaryByYear, year)
      exact == HasEntry(taxResults, i) /\ HasEntry(taxResultsWithoutRSU, i)
      taxWithRSU == taxResults[i + 1].totalTax
      taxWithoutRSU == taxResultsWithoutRSU[i + 1].totalTax
      rsuTax == calculateRSUTax(salaryGrossIncome, grossRSUValue, pensionPercentage,
                                has30PercentRuling, year, NETHERLANDS_TAX_CONFIG_2025)
      taxPaid == IF exact THEN taxWithRSU - taxWithoutRSU ELSE rsuTax.taxOnRSU
      netRSUValue == IF exact THEN grossRSUValue - taxPaid ELSE rsuTax.netRSUValue
      marginalTaxRate ==
        IF exact
        THEN (IF grossRSUValue > 0 THEN DivRate(taxPaid, grossRSUValue) ELSE 0)
        ELSE rsuTax.marginalTaxRate
  IN  [ year |-> year,
        sharesVested |-> totalSharesVested,
        grantPriceAvg |-> avgGrantPrice,
        vestingPriceEur |-> vestingPriceEur,
        grossRSUValue |-> grossRSUValue,
        stockAppreciation |-> stockAppreciation,
        appreciationPercentage |-> appreciationPercentage,
        marginalTaxRate |-> marginalTaxRate,
        taxPaid |-> taxPaid,
        netRSUValue |-> netRSUValue ]

\* a vesting series that stops one year before the end of the horizon
calculateRSUVestingByYearShort(grants, startYear, projectionYears, salaryByYear, sharePriceGrowthRate, currentStockPrice, pensionPercentage, has30PercentRuling, taxResults, taxResultsWithoutRSU) ==
  [ k \in 1..(projectionYears - 1) |->
      RSUVestingYearOf(grants, startYear, k - 1, salaryByYear, sharePriceGrowthRate,
                       currentStockPrice, pensionPercentage, has30PercentRuling,
                       taxResults, taxResultsWithoutRSU) ]

\* a vesting series that ignores the two tax series it is given
calculateRSUVestingByYearMarginal(grants, startYear, projectionYears, salaryByYear, sharePriceGrowthRate, currentStockPrice, pensionPercentage, has30PercentRuling, taxResults, taxResultsWithoutRSU) ==
  [ k \in 1..projectionYears |->
      RSUVestingYearOf(grants, startYear, k - 1, salaryByYear, sharePriceGrowthRate,
                       currentStockPrice, pensionPercentage, has30PercentRuling,
                       << >>, << >>) ]

calculateRSUVestingByYear(grants, startYear, projectionYears, salaryByYear, sharePriceGrowthRate, currentStockPrice, pensionPercentage, has30PercentRuling, taxResults, taxResultsWithoutRSU) ==
  [ k \in 1..projectionYears |->
      RSUVestingYearOf(grants, startYear, k - 1, salaryByYear, sharePriceGrowthRate,
                       currentStockPrice, pensionPercentage, has30PercentRuling,
                       taxResults, taxResultsWithoutRSU) ]

createDefaultRSUGrant(grantYear) ==
  LET grantValueEur == Eur(100000)
      sharePriceEur == Eur(100)
  IN  [ id |-> <<"grant", grantYear, "main">>,
        grantYear |-> grantYear,
        grantType |-> "Main",
        grantValueEur |-> grantValueEur,
        sharePriceEur |-> sharePriceEur,
        grantShares |-> SharesOf(grantValueEur, sharePriceEur),
        vestingYears |-> 4,
        vestingPercentagePerYear |-> 25000 ]

(***************************************************************************)
(* Salary, expenses and the yearly aggregator (financialProjections)       *)
(***************************************************************************)

calculateSalaryByYear(baseSalary, salaryGrowthRate, startYear, projectionYears) ==
  [ year \in startYear..(startYear + projectionYears - 1) |->
      MulRate(baseSalary, PowRate(RateScale + salaryGrowthRate, year - startYear)) ]

RECURSIVE SumMonthlyAmounts(_)
SumMonthlyAmounts(expenseCategories) ==
  IF Len(expenseCategories) = 0 THEN 0
  ELSE SumMonthlyAmounts(SubSeq(expenseCategories, 1, Len(expenseCategories) - 1))
       + expenseCategories[Len(expenseCategories)].monthlyAmount

calculateYearlyExpenses(expenseCategories, expenseInflationRate, startYear, projectionYears) ==
  LET baseMonthlyExpenses == SumMonthlyAmounts(expenseCategories)
      baseAnnualExpenses == baseMonthlyExpenses * 12
  IN  [ year \in startYear..(startYear + projectionYears - 1) |->
          MulRate(baseAnnualExpenses,
                  PowRate(RateScale + expenseInflationRate, year - startYear)) ]

\* x || 0 for a rate: NaN becomes 0
OrZero(x) == IF x = NaN THEN 0 ELSE x

\* a savings rate on the net income alone, the employer contribution left out
\* of the denominator
SavingsRateOfNetIncome(netSavings, totalNetIncomeCalc, employerPensionContribution) ==
  IF totalNetIncomeCalc > 0 THEN DivRate(netSavings, totalNetIncomeCalc) ELSE 0

\* totalNetIncomeCalc > 0
\*   ? netSavings / (totalNetIncomeCalc + employerPensionContribution) : 0
SavingsRateOf(netSavings, totalNetIncomeCalc, employerPensionContribution) ==
  IF totalNetIncomeCalc > 0
  THEN DivRate(netSavings, totalNetIncomeCalc + employerPensionContribution)
  ELSE 0

\* the body of the year loop of calculateFinancialProjections, for index i
YearlyFinancialOf(incomeSettings, planningSettings, salaryByYear, expensesByYear, taxResults, rsuVestingByYear, taxResultsWithoutRSU, i) ==
  LET year == planningSettings.startYear + i
      baseSalaryYear == MapGet(salaryByYear, year)
      grossIncome ==
        MulRate(baseSalaryYear,
                RateScale + incomeSettings.holidayAllowancePercentage
                          + incomeSettings.bonusPercentage)
      employerPensionContribution ==
        MulRate(baseSalaryYear, incomeSettings.employerPensionPercentage)
      rsuGrossValue ==
        IF HasEntry(rsuVestingByYear, i) THEN rsuVestingByYear[i + 1].grossRSUValue ELSE 0
      netRSUValue ==
        IF HasEntry(rsuVestingByYear, i) THEN rsuVestingByYear[i + 1].netRSUValue ELSE 0
      netIncome ==
        IF HasEntry(taxResultsWithoutRSU, i) THEN taxResultsWithoutRSU[i + 1].netIncome
        ELSE LET totalNetIncome ==
                   IF HasEntry(taxResults, i) THEN taxResults[i + 1].netIncome ELSE 0
                 totalGrossIncome == grossIncome + rsuGrossValue
                 salaryPortion ==
                   IF totalGrossIncome > 0 THEN DivRate(grossIncome, totalGrossIncome)
                   ELSE RateScale
             IN  MulRate(totalNetIncome, salaryPortion)
      healthcareBenefit == incomeSettings.healthcareBenefitMonthly * 12
      netIncomeWithBenefits == netIncome + healthcareBenefit
      effectiveTaxRate ==
        IF HasEntry(taxResults, i) THEN OrZero(taxResults[i + 1].effectiveTaxRate) ELSE 0
      totalGrossIncomeCalc == grossIncome + rsuGrossValue
      totalNetIncomeCalc == netIncomeWithBenefits + netRSUValue
      totalExpenses == MapGet(expensesByYear, year)
      netSavings == totalNetIncomeCalc - totalExpenses + employerPensionContribution
      savingsRate ==
        SavingsRateOf(netSavings, totalNetIncomeCalc, employerPensionContribution)
  IN  [ year |-> year,
        grossIncome |-> grossIncome,
        rsuGrossValue |-> rsuGrossValue,
        totalGrossIncome |-> totalGrossIncomeCalc,
        netIncome |-> netIncomeWithBenefits,
        netRSUValue |-> netRSUValue,
        totalNetIncome |-> totalNetIncomeCalc,
        employerPensionContribution |-> employerPensionContribution,
        totalExpenses |-> totalExpenses,
        netSavings |-> netSavings,
        savingsRate |-> savingsRate,
        effectiveTaxRate |-> effectiveTaxRate ]

calculateFinancialProjections(incomeSettings, planningSettings, expenseCategories, taxResults, rsuVestingByYear, taxResultsWithoutRSU) ==
  LET startYear == planningSettings.startYear
      projectionYears == planningSettings.projectionYears
      salaryByYear ==
        calculateSalaryByYear(incomeSettings.baseSalary, incomeSettings.salaryGrowthRate,
                              startYear, projectionYears)
      expensesByYear ==
        calculateYearlyExpenses(expenseCategories, planningSettings.expenseInflationRate,
                                startYear, projectionYears)
  IN  [ k \in 1..projectionYears |->
          YearlyFinancialOf(incomeSettings, planningSettings, salaryByYear,
                            expensesByYear, taxResults, rsuVestingByYear,
                            taxResultsWithoutRSU, k - 1) ]

calculateAverageMetrics(financials) ==
  IF Len(financials) = 0
  THEN [averageSavingsRate |-> 0, averageEffectiveTaxRate |-> 0, totalSavings |-> 0]
  ELSE [ totalSavings |-> SumSeq([k \in 1..Len(financials) |-> financials[k].netSavings]),
         averageSavingsRate |->
           SumSeq([k \in 1..Len(financials) |-> financials[k].savingsRate])
             \div Len(financials),
         averageEffectiveTaxRate |->
           SumSeq([k \in 1..Len(financials) |-> financials[k].effectiveTaxRate])
             \div Len(financials) ]

(***************************************************************************)
(* Investment and pension projectors, metrics                              *)
(***************************************************************************)

\* the balance roll of one year: growth and closing balance
projectSingleYear(openingBalance, contribution, returnRate) ==
  LET balanceForGrowth == openingBalance + (contribution \div 2)
      growth == MulRate(balanceForGrowth, returnRate)
      closingBalance == openingBalance + contribution + growth
  IN  [growth |-> growth, closingBalance |-> closingBalance]

\* a year in which the net RSU value is invested at the bonus fraction only
YearlyInvestmentOfFractionOfRSU(startingNetWorth, annualReturnRate, financial, incomeSettings, investmentSettings, i, currentBalance) ==
  LET year == financial.year
      openingBalance == currentBalance
      baseSalary ==
        MulRate(incomeSettings.baseSalary,
                PowRate(RateScale + incomeSettings.salaryGrowthRate, i))
      bonusGross == MulRate(baseSalary, incomeSettings.bonusPercentage)
      holidayAllowanceGross == MulRate(baseSalary, incomeSettings.holidayAllowancePercentage)
      bonusNet == MulRate(bonusGross, RateScale - financial.effectiveTaxRate)
      holidayAllowanceNet ==
        MulRate(holidayAllowanceGross, RateScale - financial.effectiveTaxRate)
      bonusContributions == MulRate(bonusNet, investmentSettings.bonusInvestmentPercentage)
      holidayAllowanceContributions ==
        MulRate(holidayAllowanceNet, investmentSettings.holidayAllowanceInvestmentPercentage)
      netSalaryOnly ==
        financial.totalNetIncome - financial.netRSUValue - bonusNet - holidayAllowanceNet
      monthlySavings == netSalaryOnly - financial.totalExpenses
      monthlySavingsContributions == Max(0, monthlySavings)
      rsuContributions ==
        MulRate(financial.netRSUValue, investmentSettings.bonusInvestmentPercentage)
      cashContributions ==
        monthlySavingsContributions + holidayAllowanceContributions + bonusContributions
      contributions ==
        monthlySavingsContributions + holidayAllowanceContributions + bonusContributions
        + rsuContributions
      balanceForGrowth == openingBalance + (contributions \div 2)
      investmentGrowth == MulRate(balanceForGrowth, annualReturnRate)
      closingBalance == openingBalance + contributions + investmentGrowth
      cumulativeROI ==
        IF startingNetWorth > 0
        THEN DivRate(closingBalance - startingNetWorth, startingNetWorth)
        ELSE 0
  IN  [ year |-> year,
        openingBalance |-> openingBalance,
        contributions |-> contributions,
        monthlySavingsContributions |-> monthlySavingsContributions,
        holidayAllowanceContributions |-> holidayAllowanceContributions,
        bonusContributions |-> bonusContributions,
        cashContributions |-> cashContributions,
        rsuContributions |-> rsuContributions,
        investmentGrowth |-> investmentGrowth,
        closingBalance |-> closingBalance,
        cumulativeROI |-> cumulativeROI ]

\* the body of the year loop of calculateInvestmentProjections for index i,
\* entered with the rolling currentBalance
YearlyInvestmentOf(startingNetWorth, annualReturnRate, financial, incomeSettings, investmentSettings, i, currentBalance) ==
  LET year == financial.year
      openingBalance == currentBalance
      baseSalary ==
        MulRate(incomeSettings.baseSalary,
                PowRate(RateScale + incomeSettings.salaryGrowthRate, i))
      bonusGross == MulRate(baseSalary, incomeSettings.bonusPercentage)
      holidayAllowanceGross == MulRate(baseSalary, incomeSettings.holidayAllowancePercentage)
      bonusNet == MulRate(bonusGross, RateScale - financial.effectiveTaxRate)
      holidayAllowanceNet ==
        MulRate(holidayAllowanceGross, RateScale - financial.effectiveTaxRate)
      bonusContributions == MulRate(bonusNet, investmentSettings.bonusInvestmentPercentage)
      holidayAllowanceContributions ==
        MulRate(holidayAllowanceNet, investmentSettings.holidayAllowanceInvestmentPercentage)
      netSalaryOnly ==
        financial.totalNetIncome - financial.netRSUValue - bonusNet - holidayAllowanceNet
      monthlySavings == netSalaryOnly - financial.totalExpenses
      monthlySavingsContributions == Max(0, monthlySavings)
      rsuContributions == financial.netRSUValue
      cashContributions ==
        monthlySavingsContributions + holidayAllowanceContributions + bonusContributions
      contributions ==
        monthlySavingsContributions + holidayAllowanceContributions + bonusContributions
        + rsuContributions
      balanceForGrowth == openingBalance + (contributions \div 2)
      investmentGrowth == MulRate(balanceForGrowth, annualReturnRate)
      closingBalance == openingBalance + contributions + investmentGrowth
      cumulativeROI ==
        IF startingNetWorth > 0
        THEN DivRate(closingBalance - startingNetWorth, startingNetWorth)
        ELSE 0
  IN  [ year |-> year,
        openingBalance |-> openingBalance,
        contributions |-> contributions,
        monthlySavingsContributions |-> monthlySavingsContributions,
        holidayAllowanceContributions |-> holidayAllowanceContributions,
        bonusContributions |-> bonusContributions,
        cashContributions |-> cashContributions,
        rsuContributions |-> rsuContributions,
        investmentGrowth |-> investmentGrowth,
        closingBalance |-> closingBalance,
        cumulativeROI |-> cumulativeROI ]

\* a carry that drops the year's return and contributions
InvestmentCarryOpening(result) == result.openingBalance

\* currentBalance = closingBalance, at the end of an iteration
InvestmentCarry(result) == result.closingBalance

RECURSIVE InvestmentLoop(_, _, _, _, _, _)
\* the results array after the first n iterations of the year loop
InvestmentLoop(startingNetWorth, annualReturnRate, yearlyFinancials, incomeSettings, investmentSettings, n) ==
  IF n = 0 THEN << >>
  ELSE LET results == InvestmentLoop(startingNetWorth, annualReturnRate, yearlyFinancials,
                                     incomeSettings, investmentSettings, n - 1)
           currentBalance ==
             IF n = 1 THEN startingNetWorth ELSE InvestmentCarry(results[n - 1])
       IN  Append(results,
                  YearlyInvestmentOf(startingNetWorth, annualReturnRate,
                                     yearlyFinancials[n], incomeSettings,
                                     investmentSettings, n - 1, currentBalance))

\* a projection that starts from the closing balance published by the run before
calculateInvestmentProjectionsFromPublished(startingNetWorth, annualReturnRate, yearlyFinancials, incomeSettings, investmentSettings) ==
  InvestmentLoop(IF Len(projections.yearlyInvestments) > 0
                 THEN projections.yearlyInvestments[
                        Len(projections.yearlyInvestments)].closingBalance
                 ELSE startingNetWorth,
                 annualReturnRate, yearlyFinancials, incomeSettings,
                 investmentSettings, Len(yearlyFinancials))

calculateInvestmentProjections(startingNetWorth, annualReturnRate, yearlyFinancials, incomeSettings, investmentSettings) ==
  InvestmentLoop(startingNetWorth, annualReturnRate, yearlyFinancials, incomeSettings,
                 investmentSettings, Len(yearlyFinancials))

\* a pension year whose growth is earned on the opening balance alone
YearlyPensionOfOpeningGrowth(pensionReturnRate, financial, taxResult, currentBalance) ==
  LET year == financial.year
      openingBalance == currentBalance
      employeeContributions == taxResult.pensionContributions
      employerContributions == financial.employerPensionContribution
      totalContributions == employeeContributions + employerContributions
      pensionGrowth == MulRate(openingBalance, pensionReturnRate)
      closingBalance == openingBalance + totalContributions + pensionGrowth
  IN  [ year |-> year,
        openingBalance |-> openingBalance,
        employeeContributions |-> employeeContributions,
        employerContributions |-> employerContributions,
        pensionGrowth |-> pensionGrowth,
        closingBalance |-> closingBalance ]

\* the body of the year loop of calculatePensionProjections, entered with the
\* rolling currentBalance
YearlyPensionOf(pensionReturnRate, financial, taxResult, currentBalance) ==
  LET year == financial.year
      openingBalance == currentBalance
      employeeContributions == taxResult.pensionContributions
      employerContributions == financial.employerPensionContribution
      totalContributions == employeeContributions + employerContributions
      balanceForGrowth == openingBalance + (totalContributions \div 2)
      pensionGrowth == MulRate(balanceForGrowth, pensionReturnRate)
      closingBalance == openingBalance + totalContributions + pensionGrowth
  IN  [ year |-> year,
        openingBalance |-> openingBalance,
        employeeContributions |-> employeeContributions,
        employerContributions |-> employerContributions,
        pensionGrowth |-> pensionGrowth,
        closingBalance |-> closingBalance ]

\* currentBalance = closingBalance, at the end of an iteration
PensionCarry(result) == result.closingBalance

RECURSIVE PensionLoop(_, _, _, _, _)
PensionLoop(startingPensionBalance, pensionReturnRate, yearlyFinancials, taxResults, n) ==
  IF n = 0 THEN << >>
  ELSE LET results == PensionLoop(startingPensionBalance, pensionReturnRate,
                                  yearlyFinancials, taxResults, n - 1)
           currentBalance ==
             IF n = 1 THEN startingPensionBalance ELSE PensionCarry(results[n - 1])
       IN  Append(results,
                  YearlyPensionOf(pensionReturnRate, yearlyFinancials[n], taxResults[n],
                                  currentBalance))

calculatePensionProjections(startingPensionBalance, pensionReturnRate, yearlyFinancials, taxResults) ==
  PensionLoop(startingPensionBalance, pensionReturnRate, yearlyFinancials, taxResults,
              Len(yearlyFinancials))

RECURSIVE PowExceeds(_, _, _, _)
\* whether acc * base^n > limit, for base >= RateScale (the products only grow)
PowExceeds(acc, base, n, limit) ==
  IF acc > limit THEN TRUE
  ELSE IF n = 0 THEN FALSE
  ELSE PowExceeds(MulRate(acc, base), base, n - 1, limit)

\* whether base^n <= x, for factors in 1/RateScale units
PowAtMost(base, n, x) ==
  IF base < RateScale THEN PowRate(base, n) <= x
  ELSE ~PowExceeds(RateScale, base, n, x)

RECURSIVE RootSearch(_, _, _, _)
\* the largest r in lo..hi with r^n <= x, given lo^n <= x
RootSearch(x, n, lo, hi) ==
  IF lo >= hi THEN lo
  ELSE LET mid == lo + ((hi - lo + 1) \div 2)
       IN  IF PowAtMost(mid, n, x) THEN RootSearch(x, n, mid, hi)
           ELSE RootSearch(x, n, lo, mid - 1)

\* Math.pow(x, 1 / n) for a factor x >= 0 and an integer n >= 1
RootRate(x, n) == RootSearch(x, n, 0, Max(x, RateScale))

\* a growth rate guarded against negative starting values only
calculateCAGRStrictGuard(startingValue, endingValue, years) ==
  IF startingValue < 0 \/ years <= 0 THEN 0
  ELSE LET ratio == Ratio(endingValue, startingValue)
       IN  IF ratio \in {NaN, INFINITY} THEN ratio
           ELSE RootRate(ratio, years) - RateScale

calculateCAGR(startingValue, endingValue, years) ==
  IF startingValue <= 0 \/ years <= 0 THEN 0
  ELSE LET ratio == Ratio(endingValue, startingValue)
       IN  IF ratio \in {NaN, INFINITY} THEN ratio
           ELSE RootRate(ratio, years) - RateScale

calculateNetWorthMetrics(investments) ==
  IF Len(investments) = 0 THEN [finalNetWorth |-> 0, netWorthCAGR |-> 0]
  ELSE LET firstYear == investments[1]
           lastYear == investments[Len(investments)]
           finalNetWorth == lastYear.closingBalance
           netWorthCAGR ==
             calculateCAGR(firstYear.openingBalance, finalNetWorth, Len(investments))
       IN  [finalNetWorth |-> finalNetWorth, netWorthCAGR |-> netWorthCAGR]

(***************************************************************************)
(* The settings store (FinancialContext.tsx)                               *)
(***************************************************************************)

defaultIncomeSettings ==
  [ baseSalary |-> Eur(78500),
    bonusPercentage |-> 10000,
    holidayAllowancePercentage |-> 8000,
    pensionPercentage |-> 3380,
    employerPensionPercentage |-> 8000,
    healthcareBenefitMonthly |-> Eur(200),
    has30PercentRuling |-> TRUE,
    salaryGrowthRate |-> 5000 ]

defaultInvestmentSettings ==
  [ startingNetWorth |-> Eur(71000),
    startingPensionBalance |-> Eur(0),
    annualReturnRate |-> 10000,
    pensionReturnRate |-> 7000,
    sharePriceGrowthRate |-> 5000,
    currentStockPrice |-> Eur(150),
    bonusInvestmentPercentage |-> RateScale,
    holidayAllowanceInvestmentPercentage |-> RateScale ]

defaultPlanningSettings ==
  [ startYear |-> 2025,
    projectionYears |-> 6,
    expenseInflationRate |-> 2000 ]

defaultExpenseCategories ==
  << [id |-> <<"rent">>,      name |-> "Rent",                monthlyAmount |-> Eur(1450)],
     [id |-> <<"utilities">>, name |-> "Utilities",           monthlyAmount |-> Eur(150)],
     [id |-> <<"food">>,      name |-> "Food",                monthlyAmount |-> Eur(500)],
     [id |-> <<"holiday">>,   name |-> "Holiday",             monthlyAmount |-> Eur(200)],
     [id |-> <<"clothing">>,  name |-> "Clothing",            monthlyAmount |-> Eur(200)],
     [id |-> <<"family">>,    name |-> "Helping family",      monthlyAmount |-> Eur(400)],
     [id |-> <<"fun">>,       name |-> "Fun / entertainment", monthlyAmount |-> Eur(500)] >>

defaultRSUGrants == << createDefaultRSUGrant(2024) >>

defaultData ==
  [ incomeSettings |-> defaultIncomeSettings,
    investmentSettings |-> defaultInvestmentSettings,
    planningSettings |-> defaultPlanningSettings,
    expenseCategories |-> defaultExpenseCategories,
    rsuGrants |-> defaultRSUGrants ]

emptyProjections ==
  [ taxResults |-> << >>,
    rsuVestingByYear |-> << >>,
    yearlyFinancials |-> << >>,
    yearlyInvestments |-> << >>,
    yearlyPension |-> << >> ]

zeroMetrics ==
  [ averageSavingsRate |-> 0,
    totalSavings |-> 0,
    finalNetWorth |-> 0,
    netWorthCAGR |-> 0,
    totalRSUGrossValue |-> 0,
    totalRSUTaxPaid |-> 0,
    totalRSUNetValue |-> 0,
    averageEffectiveTaxRate |-> 0 ]

\* { ...prev, ...updates } for a Partial<> of prev's type
Merge(prev, updates) ==
  [ f \in DOMAIN prev |-> IF f \in DOMAIN updates THEN updates[f] ELSE prev[f] ]

\* an update that resets the fields it is not given to their defaults
updateIncomeSettingsResetting(prev, settings) ==
  [prev EXCEPT !.incomeSettings = Merge(defaultIncomeSettings, settings)]

updateIncomeSettings(prev, settings) ==
  [prev EXCEPT !.incomeSettings = Merge(prev.incomeSettings, settings)]

updateInvestmentSettings(prev, settings) ==
  [prev EXCEPT !.investmentSettings = Merge(prev.investmentSettings, settings)]

updatePlanningSettings(prev, settings) ==
  [prev EXCEPT !.planningSettings = Merge(prev.planningSettings, settings)]

addExpenseCategory(prev, category) ==
  [prev EXCEPT !.expenseCategories = Append(prev.expenseCategories, category)]

updateExpenseCategory(prev, id, updates) ==
  [prev EXCEPT !.expenseCategories =
     [ k \in 1..Len(prev.expenseCategories) |->
         LET cat == prev.expenseCategories[k]
         IN  IF cat.id = id THEN Merge(cat, updates) ELSE cat ]]

removeExpenseCategory(prev, id) ==
  LET Keep(cat) == cat.id # id
  IN  [prev EXCEPT !.expenseCategories = SelectSeq(prev.expenseCategories, Keep)]

addRSUGrant(prev, grant) ==
  [prev EXCEPT !.rsuGrants = Append(prev.rsuGrants, grant)]

\* the map callback of updateRSUGrant
UpdatedGrant(grant, id, updates) ==
  IF grant.id = id THEN
    LET updated == Merge(grant, updates)
    IN  IF "grantValueEur" \in DOMAIN updates \/ "sharePriceEur" \in DOMAIN updates
        THEN [updated EXCEPT !.grantShares =
                SharesOf(updated.grantValueEur, updated.sharePriceEur)]
        ELSE updated
  ELSE grant

updateRSUGrant(prev, id, updates) ==
  [prev EXCEPT !.rsuGrants =
     [ k \in 1..Len(prev.rsuGrants) |-> UpdatedGrant(prev.rsuGrants[k], id, updates) ]]

removeRSUGrant(prev, id) ==
  LET Keep(grant) == grant.id # id
  IN  [prev EXCEPT !.rsuGrants = SelectSeq(prev.rsuGrants, Keep)]

updateRSUGrants(prev, grants) ==
  [prev EXCEPT !.rsuGrants = grants]

(***************************************************************************)
(* recalculate, step by step                                               *)
(***************************************************************************)

emptyRun ==
  [ salaryByYear |-> << >>,
    rsuVestingInitial |-> << >>,
    taxResults |-> << >>,
    taxResultsWithoutRSU |-> << >>,
    rsuVestingByYear |-> << >>,
    yearlyFinancials |-> << >>,
    yearlyInvestments |-> << >>,
    yearlyPension |-> << >> ]

\* an RSU income of the tax loop that is the net value of the first pass
RsuIncomeOfNetValue(rsuVestingInitial, i) ==
  IF HasEntry(rsuVestingInitial, i) THEN rsuVestingInitial[i + 1].netRSUValue ELSE 0

\* rsuVestingInitial[i]?.grossRSUValue || 0
RsuIncomeOf(rsuVestingInitial, i) ==
  IF HasEntry(rsuVestingInitial, i) THEN rsuVestingInitial[i + 1].grossRSUValue ELSE 0

\* salary * (1 + holidayAllowancePercentage + bonusPercentage)
SalaryIncomeOf(incomeSettings, salary) ==
  MulRate(salary, RateScale + incomeSettings.holidayAllowancePercentage
                            + incomeSettings.bonusPercentage)

\* a pension contribution on the salary income, bonus and holiday allowance included
PensionAmountOfSalaryIncome(incomeSettings, salary) ==
  MulRate(SalaryIncomeOf(incomeSettings, salary), incomeSettings.pensionPercentage)

\* pension is calculated on the base salary only
PensionAmountOf(incomeSettings, salary) ==
  MulRate(salary, incomeSettings.pensionPercentage)

\* iteration i of the tax loop: the tax result with RSU
TaxResultWithRSU(d, salaryByYear, rsuVestingInitial, i) ==
  LET year == d.planningSettings.startYear + i
      salary == MapGet(salaryByYear, year)
      salaryIncome == SalaryIncomeOf(d.incomeSettings, salary)
      rsuIncome == RsuIncomeOf(rsuVestingInitial, i)
      totalGrossIncome == salaryIncome + rsuIncome
      pensionAmount == PensionAmountOf(d.incomeSettings, salary)
  IN  calculateTax(totalGrossIncome, d.incomeSettings.pensionPercentage,
                   d.incomeSettings.has30PercentRuling, year,
                   NETHERLANDS_TAX_CONFIG_2025, pensionAmount)

\* a tax result without RSU that leaves the 30% ruling out
TaxResultWithoutRSUNoRuling(d, salaryByYear, i) ==
  LET year == d.planningSettings.startYear + i
      salary == MapGet(salaryByYear, year)
      salaryIncome == SalaryIncomeOf(d.incomeSettings, salary)
      pensionAmount == PensionAmountOf(d.incomeSettings, salary)
  IN  calculateTax(salaryIncome, d.incomeSettings.pensionPercentage, FALSE, year,
                   NETHERLANDS_TAX_CONFIG_2025, pensionAmount)

\* iteration i of the tax loop: the tax result without RSU
TaxResultWithoutRSU(d, salaryByYear, i) ==
  LET year == d.planningSettings.startYear + i
      salary == MapGet(salaryByYear, year)
      salaryIncome == SalaryIncomeOf(d.incomeSettings, salary)
      pensionAmount == PensionAmountOf(d.incomeSettings, salary)
  IN  calculateTax(salaryIncome, d.incomeSettings.pensionPercentage,
                   d.incomeSettings.has30PercentRuling, year,
                   NETHERLANDS_TAX_CONFIG_2025, pensionAmount)

\* Step 1: salary by year.  The effect starts a run on the current snapshot.
StepSalary ==
  /\ pc = "effect"
  /\ run' = [emptyRun EXCEPT !.salaryByYear =
               calculateSalaryByYear(data.incomeSettings.baseSalary,
                                     data.incomeSettings.salaryGrowthRate,
                                     data.planningSettings.startYear,
                                     data.planningSettings.projectionYears)]
  /\ pc' = "rsu1"
  /\ UNCHANGED <<data, projections, metrics, saved, now, setupCompleted,
                 publishedFrom, fnCall, fnResult>>

\* a step 2 that values the vesting shares at the current stock price, without
\* the growth of the share price
StepRSUInitialNoGrowth ==
  /\ pc = "rsu1"
  /\ run' = [run EXCEPT !.rsuVestingInitial =
               calculateRSUVestingByYear(
                 data.rsuGrants, data.planningSettings.startYear,
                 data.planningSettings.projectionYears, run.salaryByYear,
                 0, data.investmentSettings.currentStockPrice,
                 data.incomeSettings.pensionPercentage,
                 data.incomeSettings.has30PercentRuling, << >>, << >>)]
  /\ pc' = "tax"
  /\ UNCHANGED <<data, projections, metrics, saved, now, setupCompleted,
                 publishedFrom, fnCall, fnResult>>

\* Step 2: RSU vesting without tax results (fallback tax)
StepRSUInitial ==
  /\ pc = "rsu1"
  /\ run' = [run EXCEPT !.rsuVestingInitial =
               calculateRSUVestingByYear(
                 data.rsuGrants, data.planningSettings.startYear,
                 data.planningSettings.projectionYears, run.salaryByYear,
                 data.investmentSettings.sharePriceGrowthRate,
                 data.investmentSettings.currentStockPrice,
                 data.incomeSettings.pensionPercentage,
                 data.incomeSettings.has30PercentRuling, << >>, << >>)]
  /\ pc' = "tax"
  /\ UNCHANGED <<data, projections, metrics, saved, now, setupCompleted,
                 publishedFrom, fnCall, fnResult>>

\* Step 3: the two tax series
StepTax ==
  /\ pc = "tax"
  /\ run' = [run EXCEPT
       !.taxResults =
         [ k \in 1..data.planningSettings.projectionYears |->
             TaxResultWithRSU(data, run.salaryByYear, run.rsuVestingInitial, k - 1) ],
       !.taxResultsWithoutRSU =
         [ k \in 1..data.planningSettings.projectionYears |->
             TaxResultWithoutRSU(data, run.salaryByYear, k - 1) ]]
  /\ pc' = "rsu2"
  /\ UNCHANGED <<data, projections, metrics, saved, now, setupCompleted,
                 publishedFrom, fnCall, fnResult>>

\* a step 4 that feeds its result back into step 3 until it no longer changes
StepRSUFinalIterate ==
  LET next ==
        calculateRSUVestingByYear(
          data.rsuGrants, data.planningSettings.startYear,
          data.planningSettings.projectionYears, run.salaryByYear,
          data.investmentSettings.sharePriceGrowthRate,
          data.investmentSettings.currentStockPrice,
          data.incomeSettings.pensionPercentage,
          data.incomeSettings.has30PercentRuling,
          run.taxResults, run.taxResultsWithoutRSU)
  IN  /\ pc = "rsu2"
      /\ run' = [run EXCEPT !.rsuVestingByYear = next, !.rsuVestingInitial = next]
      /\ pc' = IF next # run.rsuVestingInitial THEN "tax" ELSE "financials"
      /\ UNCHANGED <<data, projections, metrics, saved, now, setupCompleted,
                     publishedFrom, fnCall, fnResult>>

\* Step 4: RSU vesting with the two tax series
StepRSUFinal ==
  /\ pc = "rsu2"
  /\ run' = [run EXCEPT !.rsuVestingByYear =
               calculateRSUVestingByYear(
                 data.rsuGrants, data.planningSettings.startYear,
                 data.planningSettings.projectionYears, run.salaryByYear,
                 data.investmentSettings.sharePriceGrowthRate,
                 data.investmentSettings.currentStockPrice,
                 data.incomeSettings.pensionPercentage,
                 data.incomeSettings.has30PercentRuling,
                 run.taxResults, run.taxResultsWithoutRSU)]
  /\ pc' = "financials"
  /\ UNCHANGED <<data, projections, metrics, saved, now, setupCompleted,
                 publishedFrom, fnCall, fnResult>>

\* a step 5 that does not pass the tax series on salary alone, so that the net
\* salary is a proportional share of the net income of the combined tax result
StepFinancialsProportional ==
  /\ pc = "financials"
  /\ run' = [run EXCEPT !.yearlyFinancials =
               calculateFinancialProjections(
                 data.incomeSettings, data.planningSettings, data.expenseCategories,
                 run.taxResults, run.rsuVestingByYear, << >>)]
  /\ pc' = "investments"
  /\ UNCHANGED <<data, projections, metrics, saved, now, setupCompleted,
                 publishedFrom, fnCall, fnResult>>

\* Step 5: yearly financials
StepFinancials ==
  /\ pc = "financials"
  /\ run' = [run EXCEPT !.yearlyFinancials =
               calculateFinancialProjections(
                 data.incomeSettings, data.planningSettings, data.expenseCategories,
                 run.taxResults, run.rsuVestingByYear, run.taxResultsWithoutRSU)]
  /\ pc' = "investments"
  /\ UNCHANGED <<data, projections, metrics, saved, now, setupCompleted,
                 publishedFrom, fnCall, fnResult>>

\* Step 6: investment projections
StepInvestments ==
  /\ pc = "investments"
  /\ run' = [run EXCEPT !.yearlyInvestments =
               calculateInvestmentProjections(
                 data.investmentSettings.startingNetWorth,
                 data.investmentSettings.annualReturnRate, run.yearlyFinancials,
                 data.incomeSettings, data.investmentSettings)]
  /\ pc' = "pension"
  /\ UNCHANGED <<data, projections, metrics, saved, now, setupCompleted,
                 publishedFrom, fnCall, fnResult>>

\* Step 6b: pension projections
StepPension ==
  /\ pc = "pension"
  /\ run' = [run EXCEPT !.yearlyPension =
               calculatePensionProjections(
                 data.investmentSettings.startingPensionBalance,
                 data.investmentSettings.pensionReturnRate, run.yearlyFinancials,
                 run.taxResults)]
  /\ pc' = "metrics"
  /\ UNCHANGED <<data, projections, metrics, saved, now, setupCompleted,
                 publishedFrom, fnCall, fnResult>>

\* metrics whose RSU tax is summed over the first pass of the vesting series
NewMetricsInitialTax(r) ==
  LET avgMetrics == calculateAverageMetrics(r.yearlyFinancials)
      netWorthMetrics == calculateNetWorthMetrics(r.yearlyInvestments)
      n == Len(r.rsuVestingByYear)
      totalRSUGrossValue == SumSeq([k \in 1..n |-> r.rsuVestingByYear[k].grossRSUValue])
      totalRSUTaxPaid == SumSeq([k \in 1..n |-> r.rsuVestingInitial[k].taxPaid])
      totalRSUNetValue == SumSeq([k \in 1..n |-> r.rsuVestingByYear[k].netRSUValue])
  IN  [ averageSavingsRate |-> avgMetrics.averageSavingsRate,
        totalSavings |-> avgMetrics.totalSavings,
        finalNetWorth |-> netWorthMetrics.finalNetWorth,
        netWorthCAGR |-> netWorthMetrics.netWorthCAGR,
        totalRSUGrossValue |-> totalRSUGrossValue,
        totalRSUTaxPaid |-> totalRSUTaxPaid,
        totalRSUNetValue |-> totalRSUNetValue,
        averageEffectiveTaxRate |-> avgMetrics.averageEffectiveTaxRate ]

\* newMetrics of step 7
NewMetrics(r) ==
  LET avgMetrics == calculateAverageMetrics(r.yearlyFinancials)
      netWorthMetrics == calculateNetWorthMetrics(r.yearlyInvestments)
      n == Len(r.rsuVestingByYear)
      totalRSUGrossValue == SumSeq([k \in 1..n |-> r.rsuVestingByYear[k].grossRSUValue])
      totalRSUTaxPaid == SumSeq([k \in 1..n |-> r.rsuVestingByYear[k].taxPaid])
      totalRSUNetValue == SumSeq([k \in 1..n |-> r.rsuVestingByYear[k].netRSUValue])
  IN  [ averageSavingsRate |-> avgMetrics.averageSavingsRate,
        totalSavings |-> avgMetrics.totalSavings,
        finalNetWorth |-> netWorthMetrics.finalNetWorth,
        netWorthCAGR |-> netWorthMetrics.netWorthCAGR,
        totalRSUGrossValue |-> totalRSUGrossValue,
        totalRSUTaxPaid |-> totalRSUTaxPaid,
        totalRSUNetValue |-> totalRSUNetValue,
        averageEffectiveTaxRate |-> avgMetrics.averageEffectiveTaxRate ]

\* Step 7: metrics, setProjections, setMetrics
StepMetrics ==
  /\ pc = "metrics"
  /\ metrics' = NewMetrics(run)
  /\ projections' =
       [ taxResults |-> run.taxResults,
         rsuVestingByYear |-> run.rsuVestingByYear,
         yearlyFinancials |-> run.yearlyFinancials,
         yearlyInvestments |-> run.yearlyInvestments,
         yearlyPension |-> run.yearlyPension ]
  /\ publishedFrom' = <<data>>
  /\ pc' = "save"
  /\ UNCHANGED <<data, saved, run, now, setupCompleted, fnCall, fnResult>>

\* localStorage.setItem('financialData', JSON.stringify(data)); the effect ends
Save ==
  /\ pc = "save"
  /\ saved' = <<data>>
  /\ run' = emptyRun
  /\ pc' = "idle"
  /\ UNCHANGED <<data, projections, metrics, now, setupCompleted, publishedFrom,
                 fnCall, fnResult>>

\* the pass-1 vesting series of the current snapshot: no tax series given
FallbackVesting(d, salaryByYear) ==
  calculateRSUVestingByYear(
    d.rsuGrants, d.planningSettings.startYear, d.planningSettings.projectionYears,
    salaryByYear, d.investmentSettings.sharePriceGrowthRate,
    d.investmentSettings.currentStockPrice, d.incomeSettings.pensionPercentage,
    d.incomeSettings.has30PercentRuling, << >>, << >>)

\* what recalculate() publishes for the snapshot d
Recalculated(d) ==
  LET salaryByYear ==
        calculateSalaryByYear(d.incomeSettings.baseSalary,
                              d.incomeSettings.salaryGrowthRate,
                              d.planningSettings.startYear,
                              d.planningSettings.projectionYears)
      rsuVestingInitial == FallbackVesting(d, salaryByYear)
      taxResults ==
        [ k \in 1..d.planningSettings.projectionYears |->
            TaxResultWithRSU(d, salaryByYear, rsuVestingInitial, k - 1) ]
      taxResultsWithoutRSU ==
        [ k \in 1..d.planningSettings.projectionYears |->
            TaxResultWithoutRSU(d, salaryByYear, k - 1) ]
      rsuVestingByYear ==
        calculateRSUVestingByYear(
          d.rsuGrants, d.planningSettings.startYear, d.planningSettings.projectionYears,
          salaryByYear, d.investmentSettings.sharePriceGrowthRate,
          d.investmentSettings.currentStockPrice, d.incomeSettings.pensionPercentage,
          d.incomeSettings.has30PercentRuling, taxResults, taxResultsWithoutRSU)
      yearlyFinancials ==
        calculateFinancialProjections(
          d.incomeSettings, d.planningSettings, d.expenseCategories,
          taxResults, rsuVestingByYear, taxResultsWithoutRSU)
  IN  [ taxResults |-> taxResults,
        rsuVestingByYear |-> rsuVestingByYear,
        yearlyFinancials |-> yearlyFinancials,
        yearlyInvestments |->
          calculateInvestmentProjections(
            d.investmentSettings.startingNetWorth,
            d.investmentSettings.annualReturnRate, yearlyFinancials,
            d.incomeSettings, d.investmentSettings),
        yearlyPension |->
          calculatePensionProjections(
            d.investmentSettings.startingPensionBalance,
            d.investmentSettings.pensionReturnRate, yearlyFinancials, taxResults) ]

(***************************************************************************)
(* User events: the handlers of the pages, each calling the store.  A      *)
(* handler runs when no effect is pending; its setData calls are batched   *)
(* and the effect on [data] runs after it.                                 *)
(***************************************************************************)

\* the number of user events of a behaviour
MaxEvents == 2

\* what the settings inputs are set to
IncomePartials ==
  { [baseSalary |-> Eur(0)],
    [baseSalary |-> Eur(12000)],
    [has30PercentRuling |-> FALSE],
    [bonusPercentage |-> 0, holidayAllowancePercentage |-> 0] }

InvestmentPartials ==
  { [startingNetWorth |-> Eur(0)],
    [currentStockPrice |-> Eur(120)],
    [annualReturnRate |-> 7000, sharePriceGrowthRate |-> 3000] }

PlanningPartials ==
  { [projectionYears |-> 0],
    [projectionYears |-> 2],
    [startYear |-> 2026] }

ExpenseAmounts == { Eur(2500) }

\* the grant form of the settings page (vestingPercentagePerYear in percent)
GrantForms ==
  { [ grantYear |-> 2025, grantType |-> "Refresher", grantValueEur |-> Eur(40000),
      sharePriceEur |-> Eur(150), vestingYears |-> 4, vestingPercentagePerYear |-> 25 ],
    [ grantYear |-> 2026, grantType |-> "Promo", grantValueEur |-> Eur(10000),
      sharePriceEur |-> Eur(30), vestingYears |-> 3, vestingPercentagePerYear |-> 50 ] }

GrantYears == { 2023, 2026 }
GrantValues == { Eur(50000) }
GrantPrices == { Eur(80) }
VestingYearsInputs == { 3 }
GrantTypes == { "Promo" }

\* what the sign-up flow is completed with (NULL: the input was left empty)
SignUpForms ==
  { [ baseSalary |-> Eur(60000), has30PercentRuling |-> FALSE,
      holidayAllowancePercentage |-> 8000, bonusPercentage |-> 0,
      salaryGrowthRate |-> 3000, pensionPercentage |-> 5000,
      employerPensionPercentage |-> 5000, healthcareBenefitMonthly |-> Eur(0),
      startingNetWorth |-> Eur(10000), currentStockPrice |-> Eur(50),
      rent |-> Eur(1000), food |-> NULL, utilities |-> NULL,
      rsuGrantYear |-> 2025, rsuGrantValue |-> Eur(20000), rsuGrantType |-> "Main",
      rsuVestingYears |-> 4, rsuVestingType |-> "Equal Annual",
      startYear |-> 2025, projectionYears |-> 3 ],
    [ baseSalary |-> Eur(60000), has30PercentRuling |-> TRUE,
      holidayAllowancePercentage |-> 8000, bonusPercentage |-> 0,
      salaryGrowthRate |-> 3000, pensionPercentage |-> 5000,
      employerPensionPercentage |-> 5000, healthcareBenefitMonthly |-> Eur(0),
      startingNetWorth |-> Eur(10000), currentStockPrice |-> Eur(50),
      rent |-> NULL, food |-> Eur(400), utilities |-> Eur(100),
      rsuGrantYear |-> 2024, rsuGrantValue |-> Eur(20000), rsuGrantType |-> "Main",
      rsuVestingYears |-> 3, rsuVestingType |-> "Cliff",
      startYear |-> 2025, projectionYears |-> 3 ] }

\* a change of the snapshot that leaves no effect pending
CommitNoEffect(d) ==
  /\ pc = "idle"
  /\ now < MaxEvents
  /\ data' = d
  /\ now' = now + 1
  /\ pc' = "idle"
  /\ UNCHANGED <<projections, metrics, saved, run, setupCompleted, publishedFrom,
                 fnCall, fnResult>>

\* a user event changed the snapshot to d: the effect on [data] is now pending
Commit(d) ==
  /\ pc = "idle"
  /\ now < MaxEvents
  /\ data' = d
  /\ now' = now + 1
  /\ pc' = "effect"
  /\ UNCHANGED <<projections, metrics, saved, run, setupCompleted, publishedFrom,
                 fnCall, fnResult>>

\* the pages are shown once the sign-up flow is not
ShowSignUp ==
  ~ ( setupCompleted
      \/ ( data.incomeSettings.baseSalary > 0
           /\ data.investmentSettings.startingNetWorth >= 0 ) )

UpdateIncomeSettings ==
  \E settings \in IncomePartials :
    ~ShowSignUp /\ Commit(updateIncomeSettings(data, settings))

UpdateInvestmentSettings ==
  \E settings \in InvestmentPartials :
    ~ShowSignUp /\ Commit(updateInvestmentSettings(data, settings))

UpdatePlanningSettings ==
  \E settings \in PlanningPartials :
    ~ShowSignUp /\ Commit(updatePlanningSettings(data, settings))

\* InputsForm.handleAddExpense
handleAddExpense ==
  \E amount \in ExpenseAmounts :
    LET newCategory ==
          [id |-> <<"expense", now>>, name |-> "New", monthlyAmount |-> amount]
    IN  ~ShowSignUp /\ Commit(addExpenseCategory(data, newCategory))

\* the amount input of a listed category
UpdateExpenseCategory ==
  \E k \in 1..Len(data.expenseCategories), amount \in ExpenseAmounts :
    /\ ~ShowSignUp
    /\ k \in {1, Len(data.expenseCategories)}
    /\ Commit(updateExpenseCategory(data, data.expenseCategories[k].id,
                                    [monthlyAmount |-> amount]))

\* the remove button of a listed category
RemoveExpenseCategory ==
  \E k \in 1..Len(data.expenseCategories) :
    /\ ~ShowSignUp
    /\ k \in {1, Len(data.expenseCategories)}
    /\ Commit(removeExpenseCategory(data, data.expenseCategories[k].id))

\* the grant InputsForm.handleAddGrant and handleSaveEdit build from the form
\* a grant built from the form with the share count left at the grant value
GrantOfFormValueAsShares(newGrant, id) ==
  [ id |-> id,
    grantYear |-> newGrant.grantYear,
    grantType |-> newGrant.grantType,
    grantValueEur |-> newGrant.grantValueEur,
    sharePriceEur |-> newGrant.sharePriceEur,
    grantShares |-> newGrant.grantValueEur,
    vestingYears |-> newGrant.vestingYears,
    vestingPercentagePerYear |-> newGrant.vestingPercentagePerYear * (RateScale \div 100) ]

GrantOfForm(newGrant, id) ==
  [ id |-> id,
    grantYear |-> newGrant.grantYear,
    grantType |-> newGrant.grantType,
    grantValueEur |-> newGrant.grantValueEur,
    sharePriceEur |-> newGrant.sharePriceEur,
    grantShares |-> SharesOf(newGrant.grantValueEur, newGrant.sharePriceEur),
    vestingYears |-> newGrant.vestingYears,
    vestingPercentagePerYear |-> newGrant.vestingPercentagePerYear * (RateScale \div 100) ]

\* InputsForm.handleAddGrant
handleAddGrant ==
  \E newGrant \in GrantForms :
    ~ShowSignUp /\ Commit(addRSUGrant(data, GrantOfForm(newGrant, <<"grant", now>>)))

\* the updates handleSaveEdit passes: every field of the form but the id
SaveEditUpdates(newGrant) ==
  LET grant == GrantOfForm(newGrant, << >>)
  IN  [ f \in (DOMAIN grant) \ {"id"} |-> grant[f] ]

\* InputsForm.handleSaveEdit, for the listed grant being edited
handleSaveEdit ==
  \E k \in 1..Len(data.rsuGrants), newGrant \in GrantForms :
    ~ShowSignUp
    /\ Commit(updateRSUGrant(data, data.rsuGrants[k].id, SaveEditUpdates(newGrant)))

\* the delete button of a listed grant (InputsForm)
RemoveRSUGrant ==
  \E k \in 1..Len(data.rsuGrants) :
    ~ShowSignUp /\ Commit(removeRSUGrant(data, data.rsuGrants[k].id))

\* the price the overview page projects for a grant year
ProjectedPrice(d, grantYear) ==
  LET yearsFromNow == grantYear - d.planningSettings.startYear
  IN  MulRate(d.investmentSettings.currentStockPrice,
              PowRate(RateScale + d.investmentSettings.sharePriceGrowthRate, yearsFromNow))

\* updated[idx] = grant; updateRSUGrants(updated)
ReplaceGrant(d, idx, grant) ==
  updateRSUGrants(d, [d.rsuGrants EXCEPT ![idx] = grant])

\* FinancialOverviewPage: the type select of a grant row
OverviewChangeGrantType ==
  \E idx \in 1..Len(data.rsuGrants), grantType \in GrantTypes :
    LET grant == data.rsuGrants[idx]
    IN  ~ShowSignUp
        /\ Commit(ReplaceGrant(data, idx, [grant EXCEPT !.grantType = grantType]))

\* FinancialOverviewPage: the year input of a grant row
OverviewChangeGrantYear ==
  \E idx \in 1..Len(data.rsuGrants), grantYear \in GrantYears :
    LET grant == data.rsuGrants[idx]
        projectedPrice == ProjectedPrice(data, grantYear)
    IN  ~ShowSignUp
        /\ Commit(ReplaceGrant(data, idx,
             [grant EXCEPT !.grantYear = grantYear,
                           !.sharePriceEur = projectedPrice,
                           !.grantShares = SharesOf(grant.grantValueEur, projectedPrice)]))

\* FinancialOverviewPage: the value input of a grant row
OverviewChangeGrantValue ==
  \E idx \in 1..Len(data.rsuGrants), grantValueEur \in GrantValues :
    LET grant == data.rsuGrants[idx]
    IN  ~ShowSignUp
        /\ Commit(ReplaceGrant(data, idx,
             [grant EXCEPT !.grantValueEur = grantValueEur,
                           !.grantShares = SharesOf(grantValueEur, grant.sharePriceEur)]))

\* FinancialOverviewPage: the price input of a grant row
OverviewChangeGrantPrice ==
  \E idx \in 1..Len(data.rsuGrants), sharePriceEur \in GrantPrices :
    LET grant == data.rsuGrants[idx]
    IN  ~ShowSignUp
        /\ Commit(ReplaceGrant(data, idx,
             [grant EXCEPT !.sharePriceEur = sharePriceEur,
                           !.grantShares = SharesOf(grant.grantValueEur, sharePriceEur)]))

\* FinancialOverviewPage: the vesting-years input of a grant row
OverviewChangeVestingYears ==
  \E idx \in 1..Len(data.rsuGrants), vestingYears \in VestingYearsInputs :
    LET grant == data.rsuGrants[idx]
    IN  ~ShowSignUp
        /\ Commit(ReplaceGrant(data, idx,
             [grant EXCEPT !.vestingYears = vestingYears,
                           !.vestingPercentagePerYear = DivRate(1, vestingYears)]))

\* FinancialOverviewPage: the remove button of a grant row
OverviewRemoveGrant ==
  \E idx \in 1..Len(data.rsuGrants) :
    LET Others == [k \in 1..(Len(data.rsuGrants) - 1) |->
                     IF k < idx THEN data.rsuGrants[k] ELSE data.rsuGrants[k + 1]]
    IN  ~ShowSignUp /\ Commit(updateRSUGrants(data, Others))

\* FinancialOverviewPage: add a grant for a year that has none yet
OverviewAddGrant ==
  \E newGrantYear \in GrantYears, value \in GrantValues, newGrantType \in GrantTypes :
    LET projectedPrice == ProjectedPrice(data, newGrantYear)
        newGrant ==
          [ id |-> <<"grant", now>>,
            grantYear |-> newGrantYear,
            grantType |-> newGrantType,
            grantValueEur |-> value,
            sharePriceEur |-> projectedPrice,
            grantShares |-> SharesOf(value, projectedPrice),
            vestingYears |-> 4,
            vestingPercentagePerYear |-> 25000 ]
    IN  /\ ~ShowSignUp
        /\ \A k \in 1..Len(data.rsuGrants) : data.rsuGrants[k].grantYear # newGrantYear
        /\ Commit(updateRSUGrants(data, Append(data.rsuGrants, newGrant)))

\* String.toLowerCase of a grant type
ToLowerCase(grantType) ==
  CASE grantType = "Main" -> "main"
    [] grantType = "Refresher" -> "refresher"
    [] grantType = "Promo" -> "promo"
    [] grantType = "Retention" -> "retention"

\* SignUpFlow.handleComplete: the snapshot after its batched store calls
CompletedData(d, formData) ==
  LET d1 == IF formData.baseSalary # NULL
            THEN updateIncomeSettings(d,
                   [ baseSalary |-> formData.baseSalary,
                     has30PercentRuling |-> formData.has30PercentRuling,
                     holidayAllowancePercentage |-> formData.holidayAllowancePercentage,
                     bonusPercentage |-> formData.bonusPercentage,
                     salaryGrowthRate |-> formData.salaryGrowthRate,
                     pensionPercentage |-> formData.pensionPercentage,
                     employerPensionPercentage |-> formData.employerPensionPercentage,
                     healthcareBenefitMonthly |-> formData.healthcareBenefitMonthly ])
            ELSE d
      d2 == IF formData.startingNetWorth # NULL
            THEN updateInvestmentSettings(d1,
                   [ startingNetWorth |-> formData.startingNetWorth,
                     currentStockPrice |->
                       IF formData.currentStockPrice = NULL THEN 0
                       ELSE formData.currentStockPrice ])
            ELSE d1
      d3 == IF formData.rent # NULL
            THEN addExpenseCategory(d2,
                   [id |-> <<"rent">>, name |-> "Rent", monthlyAmount |-> formData.rent])
            ELSE d2
      d4 == IF formData.food # NULL
            THEN addExpenseCategory(d3,
                   [id |-> <<"food">>, name |-> "Food", monthlyAmount |-> formData.food])
            ELSE d3
      d5 == IF formData.utilities # NULL
            THEN addExpenseCategory(d4,
                   [ id |-> <<"utilities">>, name |-> "Utilities",
                     monthlyAmount |-> formData.utilities ])
            ELSE d4
      grantYear == formData.rsuGrantYear
      grantValue == formData.rsuGrantValue
      sharePrice == formData.currentStockPrice
      vestingYears == formData.rsuVestingYears
      vestingPercentagePerYear ==
        IF formData.rsuVestingType = "Equal Annual" THEN DivRate(1, vestingYears)
        ELSE IF formData.rsuVestingType = "Cliff" THEN 0
        ELSE DivRate(1, vestingYears)
      d6 == IF formData.rsuGrantValue # NULL /\ formData.currentStockPrice # NULL
               /\ grantValue > 0 /\ sharePrice > 0
            THEN addRSUGrant(d5,
                   [ id |-> <<"grant", grantYear, ToLowerCase(formData.rsuGrantType)>>,
                     grantYear |-> grantYear,
                     grantType |-> formData.rsuGrantType,
                     grantValueEur |-> grantValue,
                     sharePriceEur |-> sharePrice,
                     grantShares |-> SharesOf(grantValue, sharePrice),
                     vestingYears |-> vestingYears,
                     vestingPercentagePerYear |->
                       IF formData.rsuVestingType = "Cliff" THEN 0
                       ELSE vestingPercentagePerYear ])
            ELSE d5
  IN  updatePlanningSettings(d6,
        [startYear |-> formData.startYear, projectionYears |-> formData.projectionYears])

\* SignUpFlow.handleComplete, then App.handleSignUpComplete
handleComplete ==
  \E formData \in SignUpForms :
    /\ ShowSignUp
    /\ pc = "idle"
    /\ now < MaxEvents
    /\ data' = CompletedData(data, formData)
    /\ setupCompleted' = TRUE
    /\ now' = now + 1
    /\ pc' = "effect"
    /\ UNCHANGED <<projections, metrics, saved, run, publishedFrom, fnCall, fnResult>>

(***************************************************************************)
(* The application                                                         *)
(***************************************************************************)

NoCall == [fn |-> "none"]
NoResult == [fn |-> "none"]

\* the provider is mounted on the default snapshot; the effect runs once on mount
Init ==
  /\ data = defaultData
  /\ projections = emptyProjections
  /\ metrics = zeroMetrics
  /\ saved = << >>
  /\ pc = "effect"
  /\ run = emptyRun
  /\ now = 0
  /\ setupCompleted = FALSE
  /\ publishedFrom = << >>
  /\ fnCall = NoCall
  /\ fnResult = NoResult

Next ==
  \/ StepSalary
  \/ StepRSUInitial
  \/ StepTax
  \/ StepRSUFinal
  \/ StepFinancials
  \/ StepInvestments
  \/ StepPension
  \/ StepMetrics
  \/ Save
  \/ UpdateIncomeSettings
  \/ UpdateInvestmentSettings
  \/ UpdatePlanningSettings
  \/ handleAddExpense
  \/ UpdateExpenseCategory
  \/ RemoveExpenseCategory
  \/ handleAddGrant
  \/ handleSaveEdit
  \/ RemoveRSUGrant
  \/ OverviewChangeGrantType
  \/ OverviewChangeGrantYear
  \/ OverviewChangeGrantValue
  \/ OverviewChangeGrantPrice
  \/ OverviewChangeVestingYears
  \/ OverviewRemoveGrant
  \/ OverviewAddGrant
  \/ handleComplete

Spec == Init /\ [][Next]_vars

(***************************************************************************)
(* The calculators called on their own: Init draws the arguments of one    *)
(* call, the action of the called function applies it.                     *)
(***************************************************************************)

\* gross incomes around every threshold of the brackets and of the credits
GrossIncomes ==
  { 0, Eur(1), Eur(10351), Eur(10352), Eur(21318), Eur(22357), Eur(22358),
    Eur(30000), Eur(35472), Eur(36648), Eur(36649), Eur(36650), Eur(36651),
    Eur(50000), Eur(69399), Eur(69400), Eur(100000), Eur(109347), Eur(109348),
    Eur(150000) }

\* taxable incomes, in cents, around the bounds of the brackets
TaxableIncomes ==
  { 0, 1, Eur(20000), Eur(35472) - 1, Eur(35472), Eur(35472) + 1, Eur(50000),
    Eur(69399) - 1, Eur(69399), Eur(69399) + 1, Eur(120000), Eur(400000) }

TaxCalls ==
  { [ fn |-> "calculateTax", grossIncome |-> g, pensionPercentage |-> p,
      has30PercentRuling |-> r, pensionContributionsOverride |-> o ] :
      g \in GrossIncomes, p \in {0, 3380}, r \in BOOLEAN, o \in {UNDEFINED, Eur(0), Eur(2000), Eur(9000)} }

IncomeTaxCalls ==
  { [ fn |-> "calculateIncomeTax", a |-> a, b |-> b ] :
      a \in TaxableIncomes, b \in TaxableIncomes }

CAGRCalls ==
  { [ fn |-> "calculateCAGR", startingValue |-> sv, endingValue |-> ev, years |-> y ] :
      sv \in {0 - Eur(100), 0, Eur(1000), Eur(71000)},
      ev \in {0, Eur(500), Eur(20000), Eur(100000)},
      y \in {0 - 1, 0, 1, 5} }

\* the investment projection of the default settings over n years from a
\* starting balance, with no tax and no RSU series
InvestmentsFrom(startingNetWorth, n) ==
  calculateInvestmentProjections(
    startingNetWorth, defaultInvestmentSettings.annualReturnRate,
    calculateFinancialProjections(
      defaultIncomeSettings, [defaultPlanningSettings EXCEPT !.projectionYears = n],
      defaultExpenseCategories, << >>, << >>, << >>),
    defaultIncomeSettings, defaultInvestmentSettings)

NetWorthCalls ==
  { [ fn |-> "calculateNetWorthMetrics", investments |-> InvestmentsFrom(sv, n) ] :
      sv \in {0 - Eur(5000), 0, Eur(71000)}, n \in {0, 1, 3} }

\* the snapshots the vesting calculator is called on
VestingSnapshots ==
  { [defaultData EXCEPT !.planningSettings.projectionYears = 3],
    [defaultData EXCEPT !.planningSettings.projectionYears = 3,
                        !.incomeSettings.has30PercentRuling = FALSE,
                        !.incomeSettings.baseSalary = Eur(30000)],
    [defaultData EXCEPT !.planningSettings.projectionYears = 2,
                        !.rsuGrants = << >>] }

\* the arguments recalculate would pass for snapshot d, with the two tax
\* series cut to their first nWith and nWithout entries
VestingCall(d, nWith, nWithout) ==
  LET salaryByYear ==
        calculateSalaryByYear(d.incomeSettings.baseSalary,
                              d.incomeSettings.salaryGrowthRate,
                              d.planningSettings.startYear,
                              d.planningSettings.projectionYears)
      initial ==
        calculateRSUVestingByYear(
          d.rsuGrants, d.planningSettings.startYear, d.planningSettings.projectionYears,
          salaryByYear, d.investmentSettings.sharePriceGrowthRate,
          d.investmentSettings.currentStockPrice, d.incomeSettings.pensionPercentage,
          d.incomeSettings.has30PercentRuling, << >>, << >>)
  IN  [ fn |-> "calculateRSUVestingByYear",
        grants |-> d.rsuGrants,
        startYear |-> d.planningSettings.startYear,
        projectionYears |-> d.planningSettings.projectionYears,
        salaryByYear |-> salaryByYear,
        sharePriceGrowthRate |-> d.investmentSettings.sharePriceGrowthRate,
        currentStockPrice |-> d.investmentSettings.currentStockPrice,
        pensionPercentage |-> d.incomeSettings.pensionPercentage,
        has30PercentRuling |-> d.incomeSettings.has30PercentRuling,
        taxResults |->
          [ k \in 1..nWith |-> TaxResultWithRSU(d, salaryByYear, initial, k - 1) ],
        taxResultsWithoutRSU |->
          [ k \in 1..nWithout |-> TaxResultWithoutRSU(d, salaryByYear, k - 1) ] ]

VestingCalls ==
  { VestingCall(d, nWith, nWithout) :
      d \in VestingSnapshots, nWith \in 0..2, nWithout \in 0..2 }

\* the invested fractions of bonus and holiday allowance of a call
InvestedFractions == { 0, 50000, RateScale }

\* a year of yearly financials with the totals the aggregator derives
YearlyFinancialFrom(year, grossIncome, netIncome, rsuGrossValue, netRSUValue, totalExpenses, employerPensionContribution, effectiveTaxRate) ==
  [ year |-> year,
    grossIncome |-> grossIncome,
    rsuGrossValue |-> rsuGrossValue,
    totalGrossIncome |-> grossIncome + rsuGrossValue,
    netIncome |-> netIncome,
    netRSUValue |-> netRSUValue,
    totalNetIncome |-> netIncome + netRSUValue,
    employerPensionContribution |-> employerPensionContribution,
    totalExpenses |-> totalExpenses,
    netSavings |-> netIncome + netRSUValue - totalExpenses + employerPensionContribution,
    savingsRate |->
      SavingsRateOf(netIncome + netRSUValue - totalExpenses + employerPensionContribution,
                    netIncome + netRSUValue, employerPensionContribution),
    effectiveTaxRate |-> effectiveTaxRate ]

\* the yearly financials the investment calculator is called on: two years
\* of the default salary with RSUs vesting in the second, and two years in
\* which the expenses exceed what is left of the salary
FinancialSeries ==
  { << YearlyFinancialFrom(2025, Eur(92630), Eur(62000), Eur(0), Eur(0),
                           Eur(36000), Eur(6280), 34000),
       YearlyFinancialFrom(2026, Eur(97261), Eur(63500), Eur(26000), Eur(13500),
                           Eur(36720), Eur(6594), 39000) >>,
    << YearlyFinancialFrom(2025, Eur(92630), Eur(20000), Eur(25000), Eur(15000),
                           Eur(36000), Eur(6280), 12000),
       YearlyFinancialFrom(2026, Eur(97261), Eur(20500), Eur(0), Eur(0),
                           Eur(36720), Eur(6594), 12000) >> }

\* the calls of calculateInvestmentProjections: with the default settings but
\* for the invested fractions
InvestmentCalls ==
  { [ fn |-> "calculateInvestmentProjections",
      startingNetWorth |-> defaultInvestmentSettings.startingNetWorth,
      annualReturnRate |-> defaultInvestmentSettings.annualReturnRate,
      yearlyFinancials |-> series,
      incomeSettings |-> defaultIncomeSettings,
      investmentSettings |->
        [defaultInvestmentSettings EXCEPT
           !.bonusInvestmentPercentage = b,
           !.holidayAllowanceInvestmentPercentage = h] ] :
      series \in FinancialSeries, b \in InvestedFractions, h \in InvestedFractions }

\* two taxable incomes whose marginal rates are compared
MarginalRateCalls ==
  { [ fn |-> "calculateMarginalTaxRate", a |-> a, b |-> b ] :
      a \in TaxableIncomes, b \in TaxableIncomes }

FnCalls ==
  TaxCalls \cup IncomeTaxCalls \cup CAGRCalls \cup NetWorthCalls \cup VestingCalls
    \cup InvestmentCalls \cup MarginalRateCalls

InitFn ==
  /\ data = defaultData
  /\ projections = emptyProjections
  /\ metrics = zeroMetrics
  /\ saved = << >>
  /\ pc = "idle"
  /\ run = emptyRun
  /\ now = 0
  /\ setupCompleted = FALSE
  /\ publishedFrom = << >>
  /\ fnCall \in FnCalls
  /\ fnResult = NoResult

\* the called function returns
Return(fn, result) ==
  /\ fnCall.fn = fn
  /\ fnResult.fn = "none"
  /\ fnResult' = [fn |-> fn, result |-> result]
  /\ UNCHANGED <<data, projections, metrics, saved, pc, run, now, setupCompleted,
                 publishedFrom, fnCall>>

ApplyCalculateTax ==
  /\ fnCall.fn = "calculateTax"
  /\ Return("calculateTax",
            calculateTax(fnCall.grossIncome, fnCall.pensionPercentage,
                         fnCall.has30PercentRuling, 2025, NETHERLANDS_TAX_CONFIG_2025,
                         fnCall.pensionContributionsOverride))

\* calculateIncomeTax applied to both incomes of the call
ApplyCalculateIncomeTax ==
  /\ fnCall.fn = "calculateIncomeTax"
  /\ Return("calculateIncomeTax",
            [ a |-> calculateIncomeTax(fnCall.a,
                                       NETHERLANDS_TAX_CONFIG_2025.incomeTaxBrackets),
              b |-> calculateIncomeTax(fnCall.b,
                                       NETHERLANDS_TAX_CONFIG_2025.incomeTaxBrackets) ])

ApplyCalculateCAGR ==
  /\ fnCall.fn = "calculateCAGR"
  /\ Return("calculateCAGR",
            calculateCAGR(fnCall.startingValue, fnCall.endingValue, fnCall.years))

ApplyCalculateNetWorthMetrics ==
  /\ fnCall.fn = "calculateNetWorthMetrics"
  /\ Return("calculateNetWorthMetrics", calculateNetWorthMetrics(fnCall.investments))

ApplyCalculateRSUVestingByYear ==
  /\ fnCall.fn = "calculateRSUVestingByYear"
  /\ Return("calculateRSUVestingByYear",
            calculateRSUVestingByYear(
              fnCall.grants, fnCall.startYear, fnCall.projectionYears,
              fnCall.salaryByYear, fnCall.sharePriceGrowthRate, fnCall.currentStockPrice,
              fnCall.pensionPercentage, fnCall.has30PercentRuling, fnCall.taxResults,
              fnCall.taxResultsWithoutRSU))

ApplyCalculateInvestmentProjections ==
  /\ fnCall.fn = "calculateInvestmentProjections"
  /\ Return("calculateInvestmentProjections",
            calculateInvestmentProjections(
              fnCall.startingNetWorth, fnCall.annualReturnRate, fnCall.yearlyFinancials,
              fnCall.incomeSettings, fnCall.investmentSettings))

\* calculateMarginalTaxRate applied to both incomes of the call
ApplyCalculateMarginalTaxRate ==
  /\ fnCall.fn = "calculateMarginalTaxRate"
  /\ Return("calculateMarginalTaxRate",
            [ a |-> calculateMarginalTaxRate(
                      fnCall.a, NETHERLANDS_TAX_CONFIG_2025.incomeTaxBrackets,
                      NETHERLANDS_TAX_CONFIG_2025.socialContributions),
              b |-> calculateMarginalTaxRate(
                      fnCall.b, NETHERLANDS_TAX_CONFIG_2025.incomeTaxBrackets,
                      NETHERLANDS_TAX_CONFIG_2025.socialContributions) ])

NextFn ==
  \/ ApplyCalculateTax
  \/ ApplyCalculateIncomeTax
  \/ ApplyCalculateCAGR
  \/ ApplyCalculateNetWorthMetrics
  \/ ApplyCalculateRSUVestingByYear
  \/ ApplyCalculateInvestmentProjections
  \/ ApplyCalculateMarginalTaxRate

SpecFn == InitFn /\ [][NextFn]_vars

(***************************************************************************)
(* Properties of the application, checked under Spec.                      *)
(***************************************************************************)

\* the series opens at startingBalance and every later year opens at the
\* closing balance of the year before it
ChainsFrom(series, startingBalance) ==
  /\ Len(series) > 0 => series[1].openingBalance = startingBalance
  /\ \A k \in 1..(Len(series) - 1) :
       series[k + 1].openingBalance = series[k].closingBalance

\* C1: in the output of calculateInvestmentProjections and of
\* calculatePensionProjections, as computed by a run and as published, year
\* i+1 opens at exactly the closing balance of year i, and year 0 opens at
\* startingNetWorth, respectively startingPensionBalance.
C1_BalanceChaining ==
  /\ ChainsFrom(run.yearlyInvestments, data.investmentSettings.startingNetWorth)
  /\ ChainsFrom(run.yearlyPension, data.investmentSettings.startingPensionBalance)
  /\ Len(publishedFrom) > 0 =>
       /\ ChainsFrom(projections.yearlyInvestments,
                     publishedFrom[1].investmentSettings.startingNetWorth)
       /\ ChainsFrom(projections.yearlyPension,
                     publishedFrom[1].investmentSettings.startingPensionBalance)

\* a run has projected both balances over several years, and they moved
C1_Witness ==
  /\ Len(run.yearlyInvestments) >= 2
  /\ Len(run.yearlyPension) >= 2
  /\ run.yearlyInvestments[2].openingBalance # run.yearlyInvestments[1].openingBalance
  /\ run.yearlyPension[2].openingBalance # run.yearlyPension[1].openingBalance

\* C2: in every year whose RSU gross value is positive, the total tax with
\* RSU is at least the total tax without RSU (both from calculateTax with the
\* same pension override and ruling flag), so the RSU tax paid of the final
\* vesting series, their difference, is never negative.
C2_TaxDeltaNonNegative ==
  /\ \A k \in 1..Len(run.taxResults) :
       run.rsuVestingInitial[k].grossRSUValue > 0 =>
         run.taxResults[k].totalTax >= run.taxResultsWithoutRSU[k].totalTax
  /\ \A k \in 1..Len(run.rsuVestingByYear) :
       run.rsuVestingByYear[k].grossRSUValue > 0 =>
         run.rsuVestingByYear[k].taxPaid >= 0
  /\ \A k \in 1..Len(projections.rsuVestingByYear) :
       projections.rsuVestingByYear[k].grossRSUValue > 0 =>
         projections.rsuVestingByYear[k].taxPaid >= 0

\* a run has taxed a year in which shares vest, under the 30% ruling
C2_Witness ==
  /\ data.incomeSettings.has30PercentRuling
  /\ \E k \in 1..Len(run.rsuVestingByYear) :
       /\ run.rsuVestingByYear[k].grossRSUValue > 0
       /\ run.taxResults[k].totalTax > run.taxResultsWithoutRSU[k].totalTax
       /\ run.rsuVestingByYear[k].taxPaid > 0

\* C5: after any sequence of the grant operations of the pages, every stored
\* grant has grantShares == grantValueEur / sharePriceEur.
C5_GrantSharesDerived ==
  \A k \in 1..Len(data.rsuGrants) :
    data.rsuGrants[k].grantShares =
      SharesOf(data.rsuGrants[k].grantValueEur, data.rsuGrants[k].sharePriceEur)

\* a grant was added and another one's value or price was edited
C5_Witness ==
  /\ Len(data.rsuGrants) >= 2
  /\ \E k \in 1..Len(data.rsuGrants) :
       /\ data.rsuGrants[k].id = <<"grant", 2024, "main">>
       /\ data.rsuGrants[k].grantShares # defaultRSUGrants[1].grantShares
       /\ data.rsuGrants[k].grantShares > 0

\* C6: a run of the pipeline on the snapshot the published arrays and metrics
\* were computed from publishes the same arrays and the same metrics again.
C6_Idempotent ==
  [][ (pc = "metrics" /\ pc' = "save" /\ publishedFrom = <<data>>)
        => (projections' = projections /\ metrics' = metrics) ]_vars

\* the pipeline has run again on the snapshot of the run before it
C6_Witness ==
  /\ pc = "save"
  /\ now >= 1
  /\ saved = <<data>>
  /\ publishedFrom = <<data>>
  /\ Len(projections.yearlyInvestments) >= 2

\* the five published arrays
PublishedArrays ==
  << projections.taxResults, projections.rsuVestingByYear,
     projections.yearlyFinancials, projections.yearlyInvestments,
     projections.yearlyPension >>

\* C7: after every run of the pipeline the five published arrays each have
\* exactly projectionYears entries, and entry i of each is for the year
\* startYear + i; the arrays are never published with different lengths.
C7_ArraysAligned ==
  /\ \A a \in 1..5, b \in 1..5 : Len(PublishedArrays[a]) = Len(PublishedArrays[b])
  /\ Len(publishedFrom) > 0 =>
       \A a \in 1..5 :
         /\ Len(PublishedArrays[a]) = publishedFrom[1].planningSettings.projectionYears
         /\ \A k \in 1..Len(PublishedArrays[a]) :
              PublishedArrays[a][k].year
                = publishedFrom[1].planningSettings.startYear + (k - 1)

\* a run has published for a horizon and a start year other than the defaults
C7_Witness ==
  /\ Len(publishedFrom) > 0
  /\ publishedFrom[1].planningSettings.startYear = 2026
  /\ Len(projections.yearlyPension) = 2
  /\ projections.yearlyPension[2].year = 2027

\* an empty horizon has been published too
C7_WitnessEmpty ==
  /\ Len(publishedFrom) > 0
  /\ publishedFrom[1].planningSettings.projectionYears = 0
  /\ Len(projections.taxResults) = 0

\* C8: in the final vesting series, computed with both tax series, every
\* year's taxPaid is the total tax with RSU minus the total tax without RSU,
\* and its netRSUValue is grossRSUValue - taxPaid.
C8_ExactMode ==
  \A k \in 1..Len(run.rsuVestingByYear) :
    /\ run.rsuVestingByYear[k].taxPaid
         = run.taxResults[k].totalTax - run.taxResultsWithoutRSU[k].totalTax
    /\ run.rsuVestingByYear[k].netRSUValue
         = run.rsuVestingByYear[k].grossRSUValue - run.rsuVestingByYear[k].taxPaid

\* the final pass has taxed a vesting year differently from the first pass
C8_Witness ==
  \E k \in 1..Len(run.rsuVestingByYear) :
    /\ run.rsuVestingByYear[k].grossRSUValue > 0
    /\ run.rsuVestingByYear[k].taxPaid > 0
    /\ run.rsuVestingByYear[k].taxPaid # run.rsuVestingInitial[k].taxPaid

(***************************************************************************)
(* Properties of the calculators, checked under SpecFn.                    *)
(***************************************************************************)

\* C3: in every TaxResult of calculateTax, 0 <= generalTaxCredit <= 2888 and
\* 0 <= labourTaxCredit <= 4260.
C3_CreditsWithinBounds ==
  fnResult.fn = "calculateTax" =>
    /\ 0 <= fnResult.result.generalTaxCredit
    /\ fnResult.result.generalTaxCredit <= GENERAL_TAX_CREDIT_2025
    /\ 0 <= fnResult.result.labourTaxCredit
    /\ fnResult.result.labourTaxCredit <= LABOUR_TAX_CREDIT_MAX_2025

\* a TaxResult for a gross income at the end of the third band of the labour
\* credit, EUR 36,650
C3_Witness ==
  /\ fnResult.fn = "calculateTax"
  /\ fnCall.grossIncome = LABOUR_TAX_CREDIT_THRESHOLD_HIGH
  /\ fnResult.result.labourTaxCredit > 0

\* C4: for taxable incomes 0 <= a <= b, calculateIncomeTax(a) <=
\* calculateIncomeTax(b) under the 2025 brackets.
C4_IncomeTaxMonotone ==
  (fnResult.fn = "calculateIncomeTax" /\ 0 <= fnCall.a /\ fnCall.a <= fnCall.b) =>
    fnResult.result.a <= fnResult.result.b

\* two incomes on either side of a bracket bound have been taxed
C4_Witness ==
  /\ fnResult.fn = "calculateIncomeTax"
  /\ fnCall.a = Eur(35472)
  /\ fnCall.b = Eur(35472) + 1
  /\ 0 < fnResult.result.a
  /\ fnResult.result.a <= fnResult.result.b

\* whether the call gave both tax series an entry for loop index i
PairedAt(call, i) == HasEntry(call.taxResults, i) /\ HasEntry(call.taxResultsWithoutRSU, i)

\* C9: calculateRSUVestingByYear returns one entry per projection year, and
\* in every year the two tax series are not both given for, taxPaid is
\* grossRSUValue times the marginalTaxRate calculateTax reports for the
\* year's salary plus grossRSUValue, and netRSUValue is grossRSUValue - taxPaid.
C9_FallbackTotal ==
  fnResult.fn = "calculateRSUVestingByYear" =>
    /\ Len(fnResult.result) = fnCall.projectionYears
    /\ \A k \in 1..Len(fnResult.result) :
         LET entry == fnResult.result[k]
             taxResult ==
               calculateTax(MapGet(fnCall.salaryByYear, entry.year) + entry.grossRSUValue,
                            fnCall.pensionPercentage, fnCall.has30PercentRuling,
                            entry.year, NETHERLANDS_TAX_CONFIG_2025, UNDEFINED)
         IN  /\ entry.year = fnCall.startYear + (k - 1)
             /\ ~PairedAt(fnCall, k - 1) =>
                  /\ entry.taxPaid = MulRate(entry.grossRSUValue, taxResult.marginalTaxRate)
                  /\ entry.marginalTaxRate = taxResult.marginalTaxRate
                  /\ entry.netRSUValue = entry.grossRSUValue - entry.taxPaid

\* a series was returned in which a vesting year with only one of the two
\* tax results was taxed at the marginal rate, next to a year with both
C9_Witness ==
  /\ fnResult.fn = "calculateRSUVestingByYear"
  /\ Len(fnCall.taxResults) = 2
  /\ Len(fnCall.taxResultsWithoutRSU) = 1
  /\ fnResult.result[2].grossRSUValue > 0
  /\ fnResult.result[2].taxPaid > 0
  /\ fnResult.result[1].taxPaid
       = fnCall.taxResults[1].totalTax - fnCall.taxResultsWithoutRSU[1].totalTax

\* C10: calculateCAGR returns 0 whenever startingValue <= 0 or years <= 0,
\* and calculateNetWorthMetrics reports netWorthCAGR = 0 for an empty
\* projection or a first-year opening balance <= 0.
C10_CAGRGuard ==
  /\ (/\ fnResult.fn = "calculateCAGR"
      /\ (fnCall.startingValue <= 0 \/ fnCall.years <= 0))
       => fnResult.result = 0
  /\ (/\ fnResult.fn = "calculateNetWorthMetrics"
      /\ (\/ Len(fnCall.investments) = 0
          \/ fnCall.investments[1].openingBalance <= 0))
       => fnResult.result.netWorthCAGR = 0

\* the metrics of a projection that opens at a balance of zero and closes
\* above it have been computed
C10_Witness ==
  /\ fnResult.fn = "calculateNetWorthMetrics"
  /\ Len(fnCall.investments) = 3
  /\ fnCall.investments[1].openingBalance = 0
  /\ fnResult.result.finalNetWorth > 0
  /\ fnResult.result.netWorthCAGR = 0

\* a growth rate guarded by a starting value of zero has been computed
C10_WitnessCAGR ==
  /\ fnResult.fn = "calculateCAGR"
  /\ fnCall.startingValue = 0
  /\ fnCall.endingValue > 0
  /\ fnCall.years = 5
  /\ fnResult.result = 0

(***************************************************************************)
(* Further properties of the application, checked under Spec.              *)
(***************************************************************************)

\* C11: every year of the investment projection and of the pension
\* projection of a run has growth == (openingBalance + contributions/2) *
\* returnRate and closingBalance == openingBalance + contributions + growth,
\* the values projectSingleYear returns for the same opening balance,
\* contributions and rate; opening 0, contributions 10000 and a rate of 10%
\* give growth 500 and closing 10500.
C11_SharedBalanceRoll ==
  /\ \A k \in 1..Len(run.yearlyInvestments) :
       LET y == run.yearlyInvestments[k]
           rate == data.investmentSettings.annualReturnRate
       IN  /\ y.investmentGrowth
                = MulRate(y.openingBalance + (y.contributions \div 2), rate)
           /\ y.closingBalance = y.openingBalance + y.contributions + y.investmentGrowth
           /\ projectSingleYear(y.openingBalance, y.contributions, rate)
                = [growth |-> y.investmentGrowth, closingBalance |-> y.closingBalance]
  /\ \A k \in 1..Len(run.yearlyPension) :
       LET y == run.yearlyPension[k]
           rate == data.investmentSettings.pensionReturnRate
           contributions == y.employeeContributions + y.employerContributions
       IN  /\ y.pensionGrowth = MulRate(y.openingBalance + (contributions \div 2), rate)
           /\ y.closingBalance = y.openingBalance + contributions + y.pensionGrowth
           /\ projectSingleYear(y.openingBalance, contributions, rate)
                = [growth |-> y.pensionGrowth, closingBalance |-> y.closingBalance]
  /\ projectSingleYear(0, Eur(10000), 10000)
       = [growth |-> Eur(500), closingBalance |-> Eur(10500)]

\* a run has rolled both balances over a year with contributions and growth,
\* at a return rate other than the default
C11_Witness ==
  /\ data.investmentSettings.annualReturnRate = 7000
  /\ Len(run.yearlyInvestments) >= 2
  /\ Len(run.yearlyPension) >= 2
  /\ run.yearlyInvestments[2].contributions > 0
  /\ run.yearlyInvestments[2].investmentGrowth > 0
  /\ run.yearlyPension[2].employeeContributions > 0
  /\ run.yearlyPension[2].pensionGrowth > 0

\* C12: in both vesting series of a run, the vesting price of projection year
\* y is currentStockPrice * (1 + sharePriceGrowthRate)^(y - startYear),
\* whatever the grants' years and prices, and grossRSUValue is sharesVested
\* times that price; the default 1,000-share 4-year grant of 2024 vests 250
\* shares in the start year 2025 at the current price.
C12_VestingPriceAnchored ==
  /\ \A series \in {run.rsuVestingInitial, run.rsuVestingByYear} :
       \A k \in 1..Len(series) :
         /\ series[k].year = data.planningSettings.startYear + (k - 1)
         /\ series[k].vestingPriceEur
              = MulRate(data.investmentSettings.currentStockPrice,
                        PowRate(RateScale + data.investmentSettings.sharePriceGrowthRate,
                                series[k].year - data.planningSettings.startYear))
         /\ series[k].grossRSUValue
              = MulDiv(series[k].sharesVested, series[k].vestingPriceEur, ShareScale)
  /\ (data = defaultData /\ Len(run.rsuVestingByYear) > 0) =>
       /\ run.rsuVestingByYear[1].year = 2025
       /\ run.rsuVestingByYear[1].sharesVested = 250 * ShareScale
       /\ run.rsuVestingByYear[1].vestingPriceEur
            = defaultInvestmentSettings.currentStockPrice

\* shares of a grant made at another price and in another year than the
\* plan's have vested in the second projection year, at the grown price
C12_Witness ==
  /\ Len(run.rsuVestingByYear) >= 2
  /\ \E g \in 1..Len(data.rsuGrants) :
       /\ data.rsuGrants[g].sharePriceEur # data.investmentSettings.currentStockPrice
       /\ data.rsuGrants[g].grantYear # data.planningSettings.startYear
  /\ run.rsuVestingByYear[2].sharesVested > 0
  /\ run.rsuVestingByYear[2].vestingPriceEur > data.investmentSettings.currentStockPrice
  /\ run.rsuVestingByYear[2].grossRSUValue > 0

\* the positions of the effect, in the order of the statements of recalculate
\* and of the effect
StepOrder ==
  << "effect", "rsu1", "tax", "rsu2", "financials", "investments", "pension",
     "metrics", "save", "idle" >>

\* whether the step entered at position step has not run yet in this run
NotYet(step) ==
  \E j, k \in 1..Len(StepOrder) :
    /\ StepOrder[j] = pc
    /\ StepOrder[k] = step
    /\ j <= k

\* what the locals of a run hold at each position, and what is published
TwoPassState ==
  /\ NotYet("rsu1") => run.rsuVestingInitial = << >>
  /\ NotYet("tax") => (run.taxResults = << >> /\ run.taxResultsWithoutRSU = << >>)
  /\ NotYet("rsu2") => run.rsuVestingByYear = << >>
  /\ NotYet("financials") => run.yearlyFinancials = << >>
  /\ NotYet("investments") => run.yearlyInvestments = << >>
  /\ NotYet("pension") => run.yearlyPension = << >>
  /\ (pc = "idle" \/ ~NotYet("rsu1")) =>
       run.rsuVestingInitial
         = (IF pc = "idle" THEN << >> ELSE FallbackVesting(data, run.salaryByYear))
  /\ \A k \in 1..Len(run.taxResults) :
       run.taxResults[k].grossIncome
         = run.taxResultsWithoutRSU[k].grossIncome
           + run.rsuVestingInitial[k].grossRSUValue
  /\ pc = "save" => projections.rsuVestingByYear = run.rsuVestingByYear
  /\ Len(publishedFrom) > 0 =>
       LET d == publishedFrom[1]
           salaryByYear ==
             calculateSalaryByYear(d.incomeSettings.baseSalary,
                                   d.incomeSettings.salaryGrowthRate,
                                   d.planningSettings.startYear,
                                   d.planningSettings.projectionYears)
       IN  \A k \in 1..Len(projections.rsuVestingByYear) :
             projections.rsuVestingByYear[k].taxPaid
               = projections.taxResults[k].totalTax
                 - TaxResultWithoutRSU(d, salaryByYear, k - 1).totalTax

\* the effect moves from each position to the next one only, and a new run
\* starts only from "idle"
TwoPassOrder ==
  pc' # pc =>
    \/ \E k \in 1..(Len(StepOrder) - 1) : pc = StepOrder[k] /\ pc' = StepOrder[k + 1]
    \/ pc = "idle" /\ pc' = "effect"

\* C13: within a run the steps occur in the order salary, RSU vesting pass 1
\* in fallback mode, the two tax series built from the pass-1 gross values,
\* RSU vesting pass 2, aggregation, investments, pension, metrics; each step
\* runs once per run (the RSU calculator twice, the tax loop once, nothing
\* is repeated), and every published rsuVestingByYear entry is from pass 2
\* in exact mode.
C13_TwoPassOrder == [](TwoPassState) /\ [][TwoPassOrder]_vars

\* after a settings change a run has published a vesting year whose exact
\* tax differs from the provisional tax of pass 1
C13_Witness ==
  /\ pc = "save"
  /\ now >= 1
  /\ \E k \in 1..Len(projections.rsuVestingByYear) :
       /\ projections.rsuVestingByYear[k].grossRSUValue > 0
       /\ projections.rsuVestingByYear[k].taxPaid # run.rsuVestingInitial[k].taxPaid

(***************************************************************************)
(* The effect on [data] under React's scheduling: once a render has         *)
(* committed a new snapshot the effect runs, and it runs to its end.         *)
(***************************************************************************)

\* the effect proceeds from its position to the next one.  The statement at
\* each position of the effect is always executable, so the effect can proceed
\* exactly when it has not ended, and within Next the steps that move the
\* position are the statements of the effect.
EffectProceeds ==
  \E k \in 1..(Len(StepOrder) - 1) : pc = StepOrder[k] /\ pc' = StepOrder[k + 1]

SpecLive == Init /\ [][Next]_vars /\ WF_pc(EffectProceeds)

\* once the effect has ended, what is published and what is stored are those
\* of the current snapshot
SettledIsCurrent ==
  pc = "idle" =>
    /\ publishedFrom = <<data>>
    /\ projections = Recalculated(data)
    /\ saved = <<data>>

\* a change of the snapshot leaves the effect pending, a run of the effect
\* starts only with a user event (one run for each), and the store is
\* written only at the end of the effect, after the projections of the very
\* snapshot written have been published
RecomputeThenPersist ==
  /\ data' # data => (pc = "idle" /\ pc' = "effect")
  /\ (pc' = "effect" /\ pc # "effect") => (pc = "idle" /\ now' = now + 1)
  /\ saved' # saved =>
       /\ pc = "save"
       /\ publishedFrom = <<data>>
       /\ projections = Recalculated(data)
       /\ saved' = <<data>>

\* C14: every change of the snapshot is followed by one full recalculation;
\* the key-value store is written only after that recalculation; and after
\* the last change the published projections correspond to the current
\* settings.
C14_RecomputeThenPersist ==
  /\ [](SettledIsCurrent)
  /\ [][RecomputeThenPersist]_vars
  /\ ((pc = "effect") ~> (pc = "idle" /\ projections = Recalculated(data)))

\* a changed snapshot has been recalculated and stored
C14_Witness ==
  /\ pc = "idle"
  /\ now >= 1
  /\ data # defaultData
  /\ saved = <<data>>
  /\ projections = Recalculated(data)
  /\ projections # Recalculated(defaultData)

(***************************************************************************)
(* Further properties of the calculators, checked under SpecFn.             *)
(***************************************************************************)

\* incomeTax + socialContributions - generalTaxCredit - labourTaxCredit of a
\* result of calculateTax
TaxAfterCreditsUnfloored(r) ==
  r.incomeTax + r.socialContributions - r.generalTaxCredit - r.labourTaxCredit

\* C15: in every result of calculateTax, totalTax is the greater of the
\* pension contributions and incomeTax + socialContributions -
\* generalTaxCredit - labourTaxCredit, plus the pension contributions;
\* netIncome is grossIncome - totalTax; and totalTax is at least twice the
\* pension contributions.
C15_TaxFloorAndTotals ==
  fnResult.fn = "calculateTax" =>
    LET r == fnResult.result
        taxAfterCredits == r.totalTax - r.pensionContributions
    IN  /\ taxAfterCredits >= r.pensionContributions
        /\ taxAfterCredits >= TaxAfterCreditsUnfloored(r)
        /\ taxAfterCredits \in {r.pensionContributions, TaxAfterCreditsUnfloored(r)}
        /\ r.netIncome = r.grossIncome - r.totalTax
        /\ r.totalTax >= 2 * r.pensionContributions

\* a low income whose credits exceed its tax: the floor is what is charged
C15_Witness ==
  /\ fnResult.fn = "calculateTax"
  /\ fnResult.result.pensionContributions > 0
  /\ TaxAfterCreditsUnfloored(fnResult.result) < fnResult.result.pensionContributions
  /\ fnResult.result.totalTax = 2 * fnResult.result.pensionContributions

\* a higher income: the tax after credits is above the floor
C15_WitnessAboveFloor ==
  /\ fnResult.fn = "calculateTax"
  /\ fnResult.result.pensionContributions > 0
  /\ fnResult.result.totalTax
       = TaxAfterCreditsUnfloored(fnResult.result) + fnResult.result.pensionContributions
  /\ fnResult.result.totalTax > 2 * fnResult.result.pensionContributions

(***************************************************************************)
(* Further properties of the application, checked under Spec (continued).   *)
(***************************************************************************)

\* the years the vesting of a grant is examined for: from before the earliest
\* grant year to after the end of the latest vesting period
VestingCheckYears == 2021..2031

\* the shares of all grants vesting in a year, grant by grant
SharesVestingOfAll(grants, year) ==
  SumSeq([idx \in 1..Len(grants) |-> calculateSharesVestingInYear(grants[idx], year)])

\* C16: calculateSharesVestingInYear(grant, y) is grantShares *
\* vestingPercentagePerYear when 0 <= y - grantYear < vestingYears and 0
\* otherwise, and the sharesVested of each year of a vesting series is the
\* sum of that amount over all grants.
C16_VestingWindow ==
  /\ \A idx \in 1..Len(data.rsuGrants), y \in VestingCheckYears :
       LET grant == data.rsuGrants[idx]
       IN  calculateSharesVestingInYear(grant, y)
             = (IF 0 <= y - grant.grantYear /\ y - grant.grantYear < grant.vestingYears
                THEN MulRate(grant.grantShares, grant.vestingPercentagePerYear)
                ELSE 0)
  /\ \A k \in 1..Len(run.rsuVestingInitial) :
       run.rsuVestingInitial[k].sharesVested
         = SharesVestingOfAll(data.rsuGrants, data.planningSettings.startYear + k - 1)
  /\ \A k \in 1..Len(run.rsuVestingByYear) :
       run.rsuVestingByYear[k].sharesVested
         = SharesVestingOfAll(data.rsuGrants, data.planningSettings.startYear + k - 1)

\* two grants vest in one projection year, and in a later projection year the
\* vesting period of one of them is over while the other still vests
C16_Witness ==
  /\ Len(run.rsuVestingByYear) >= 2
  /\ \E k \in 1..Len(run.rsuVestingByYear), i, j \in 1..Len(data.rsuGrants) :
       LET year == data.planningSettings.startYear + k - 1
       IN  /\ i # j
           /\ calculateSharesVestingInYear(data.rsuGrants[i], year) > 0
           /\ calculateSharesVestingInYear(data.rsuGrants[j], year) > 0
           /\ run.rsuVestingByYear[k].sharesVested
                = calculateSharesVestingInYear(data.rsuGrants[i], year)
                  + calculateSharesVestingInYear(data.rsuGrants[j], year)
  /\ \E k \in 1..Len(run.rsuVestingByYear), i \in 1..Len(data.rsuGrants) :
       LET year == data.planningSettings.startYear + k - 1
           grant == data.rsuGrants[i]
       IN  /\ year - grant.grantYear = grant.vestingYears
           /\ grant.grantShares > 0
           /\ 0 < run.rsuVestingByYear[k].sharesVested
           /\ run.rsuVestingByYear[k].sharesVested
                = SharesVestingOfAll(data.rsuGrants, year)

\* C17: in every projection year both tax results carry the same pension
\* contributions, the base salary of that year times pensionPercentage,
\* whatever the bonus, the holiday allowance and the RSU income of the year.
C17_PensionOnBaseSalary ==
  /\ Len(run.taxResults) = Len(run.taxResultsWithoutRSU)
  /\ \A k \in 1..Len(run.taxResults) :
       LET salary == MapGet(run.salaryByYear, data.planningSettings.startYear + k - 1)
       IN  /\ run.taxResults[k].pensionContributions
                = MulRate(salary, data.incomeSettings.pensionPercentage)
           /\ run.taxResultsWithoutRSU[k].pensionContributions
                = run.taxResults[k].pensionContributions

\* a year with bonus or holiday allowance and with RSU income, whose pension
\* contributions are nevertheless those of the base salary
C17_Witness ==
  \E k \in 1..Len(run.taxResults) :
    /\ run.taxResults[k].pensionContributions > 0
    /\ run.taxResultsWithoutRSU[k].grossIncome
         > MapGet(run.salaryByYear, data.planningSettings.startYear + k - 1)
    /\ run.taxResults[k].grossIncome > run.taxResultsWithoutRSU[k].grossIncome
    /\ run.taxResults[k].pensionContributions
         < MulRate(run.taxResultsWithoutRSU[k].grossIncome,
                   data.incomeSettings.pensionPercentage)

NetLumpSum(incomeSettings, financial, i, rate) ==
  MulRate(MulRate(MulRate(incomeSettings.baseSalary,
                          PowRate(RateScale + incomeSettings.salaryGrowthRate, i)),
                  rate),
          RateScale - financial.effectiveTaxRate)

\* C19: in every year of calculateInvestmentProjections, contributions is
\* monthlySavingsContributions + holidayAllowanceContributions +
\* bonusContributions + rsuContributions; monthlySavingsContributions is the
\* greater of 0 and netSalaryOnly - totalExpenses, so never negative; and
\* rsuContributions is the whole netRSUValue of the year, whatever the
\* invested fractions of bonus and holiday allowance are.
C19_InvestmentContributions ==
  fnResult.fn = "calculateInvestmentProjections" =>
    \A k \in 1..Len(fnResult.result) :
      LET inv == fnResult.result[k]
          financial == fnCall.yearlyFinancials[k]
          bonusNet ==
            NetLumpSum(fnCall.incomeSettings, financial, k - 1,
                       fnCall.incomeSettings.bonusPercentage)
          holidayAllowanceNet ==
            NetLumpSum(fnCall.incomeSettings, financial, k - 1,
                       fnCall.incomeSettings.holidayAllowancePercentage)
          monthlySavings ==
            financial.totalNetIncome - financial.netRSUValue - bonusNet
              - holidayAllowanceNet - financial.totalExpenses
      IN  /\ inv.contributions
               = inv.monthlySavingsContributions + inv.holidayAllowanceContributions
                 + inv.bonusContributions + inv.rsuContributions
          /\ inv.monthlySavingsContributions >= 0
          /\ inv.monthlySavingsContributions >= monthlySavings
          /\ inv.monthlySavingsContributions \in {0, monthlySavings}
          /\ inv.rsuContributions = financial.netRSUValue

\* a call that invests half of the bonus and none of the holiday allowance,
\* with a year in which RSUs vest and something is left of the salary
C19_Witness ==
  /\ fnResult.fn = "calculateInvestmentProjections"
  /\ fnCall.investmentSettings.bonusInvestmentPercentage = 50000
  /\ fnCall.investmentSettings.holidayAllowanceInvestmentPercentage = 0
  /\ \E k \in 1..Len(fnResult.result) :
       /\ fnResult.result[k].rsuContributions > 0
       /\ fnResult.result[k].bonusContributions > 0
       /\ fnResult.result[k].holidayAllowanceContributions = 0
       /\ fnResult.result[k].monthlySavingsContributions > 0

\* a call with a year whose expenses exceed the net salary: nothing is
\* contributed from the monthly savings
C19_WitnessFloor ==
  /\ fnResult.fn = "calculateInvestmentProjections"
  /\ \E k \in 1..Len(fnResult.result) :
       /\ fnCall.yearlyFinancials[k].totalExpenses > fnCall.yearlyFinancials[k].netIncome
       /\ fnResult.result[k].monthlySavingsContributions = 0
       /\ fnResult.result[k].contributions > 0

\* whether bracket holds the taxable income: lowerBound <= taxable <
\* upperBound, the highest bracket having no upper bound
BracketContains(bracket, taxableIncome) ==
  /\ bracket.lowerBound <= taxableIncome
  /\ (bracket.upperBound = NULL \/ taxableIncome < bracket.upperBound)

\* the rate of the 2025 bracket that holds the taxable income, plus the rates
\* of the social contributions whose maxIncome is above it
RateOfBracketAndUncapped(taxableIncome) ==
  LET brackets == NETHERLANDS_TAX_CONFIG_2025.incomeTaxBrackets
      contributions == NETHERLANDS_TAX_CONFIG_2025.socialContributions
      k == CHOOSE j \in 1..Len(brackets) : BracketContains(brackets[j], taxableIncome)
  IN  brackets[k].rate
      + SumSeq([j \in 1..Len(contributions) |->
                  IF contributions[j].maxIncome > taxableIncome
                  THEN contributions[j].rate ELSE 0])

C20_WitnessBound ==
  /\ fnResult.fn = "calculateMarginalTaxRate"
  /\ fnCall.a = Eur(35472) - 1
  /\ fnCall.b = Eur(35472)
  /\ fnResult.result.a = 9420 + 27650
  /\ fnResult.result.b = 37070

(***************************************************************************)
(* Properties of grants, of the tax results and of the store.               *)
(***************************************************************************)

\* the grants of a list whose yearly fraction is not 0, in their order
RECURSIVE VestingGrants(_)
VestingGrants(grants) ==
  IF Len(grants) = 0 THEN << >>
  ELSE LET before == VestingGrants(SubSeq(grants, 1, Len(grants) - 1))
           grant == grants[Len(grants)]
       IN  IF grant.vestingPercentagePerYear = 0 THEN before ELSE Append(before, grant)

\* a grant of yearly fraction 0 vests no share in any year, and the shares
\* and the gross value of every year of a run are those of the other grants
CliffVestsNothing ==
  /\ \A idx \in 1..Len(data.rsuGrants), y \in VestingCheckYears :
       data.rsuGrants[idx].vestingPercentagePerYear = 0 =>
         calculateSharesVestingInYear(data.rsuGrants[idx], y) = 0
  /\ \A k \in 1..Len(run.rsuVestingByYear) :
       LET year == data.planningSettings.startYear + k - 1
           others == SharesVestingOfAll(VestingGrants(data.rsuGrants), year)
       IN  /\ run.rsuVestingByYear[k].sharesVested = others
           /\ run.rsuVestingByYear[k].grossRSUValue
                = SharesValue(others, run.rsuVestingByYear[k].vestingPriceEur)

\* the sign-up flow completed with the vesting type "Cliff" stores its grant
\* with the yearly fraction 0
CliffStoredAsZero ==
  \A formData \in SignUpForms :
    ( /\ ~setupCompleted
      /\ setupCompleted'
      /\ data' = CompletedData(data, formData)
      /\ formData.rsuVestingType = "Cliff" )
    => \E idx \in 1..Len(data'.rsuGrants) :
         /\ data'.rsuGrants[idx].id
              = <<"grant", formData.rsuGrantYear, ToLowerCase(formData.rsuGrantType)>>
         /\ data'.rsuGrants[idx].vestingPercentagePerYear = 0

C22_LabourCreditOnGross ==
  fnResult.fn = "calculateTax" =>
    LET r == fnResult.result
    IN  /\ \A other \in TaxCalls :
             other.grossIncome = fnCall.grossIncome =>
               calculateTax(other.grossIncome, other.pensionPercentage,
                            other.has30PercentRuling, 2025, NETHERLANDS_TAX_CONFIG_2025,
                            other.pensionContributionsOverride).labourTaxCredit
                 = r.labourTaxCredit
        /\ r.taxableIncome
             = (IF fnCall.has30PercentRuling
                THEN MulRate(r.grossIncome - r.pensionContributions, 70000)
                ELSE r.grossIncome - r.pensionContributions)

\* a call with the ruling and a pension contribution, for a gross income
\* whose labour credit is not the one of its taxable income
C22_Witness ==
  /\ fnResult.fn = "calculateTax"
  /\ fnCall.has30PercentRuling
  /\ fnResult.result.pensionContributions > 0
  /\ fnResult.result.taxableIncome
       < fnResult.result.grossIncome - fnResult.result.pensionContributions
  /\ fnResult.result.labourTaxCredit > 0
  /\ fnResult.result.labourTaxCredit
       # calculateLabourTaxCredit(fnResult.result.taxableIncome)

\* C23: in every year of the yearly financials of a run, totalGrossIncome is
\* the grossIncome of the tax result of that year, both being the base salary
\* of the year times (1 + holidayAllowancePercentage + bonusPercentage) plus
\* the gross RSU value of the year, and grossIncome is the grossIncome of the
\* tax result without RSU.
C23_GrossIncomeAgrees ==
  \A k \in 1..Len(run.yearlyFinancials) :
    LET f == run.yearlyFinancials[k]
        salary == MapGet(run.salaryByYear, data.planningSettings.startYear + k - 1)
        salaryIncome ==
          MulRate(salary, RateScale + data.incomeSettings.holidayAllowancePercentage
                                    + data.incomeSettings.bonusPercentage)
    IN  /\ Len(run.taxResults) = Len(run.yearlyFinancials)
        /\ Len(run.taxResultsWithoutRSU) = Len(run.yearlyFinancials)
        /\ Len(run.rsuVestingByYear) = Len(run.yearlyFinancials)
        /\ f.totalGrossIncome = run.taxResults[k].grossIncome
        /\ f.totalGrossIncome = salaryIncome + run.rsuVestingByYear[k].grossRSUValue
        /\ f.grossIncome = run.taxResultsWithoutRSU[k].grossIncome

\* a year with a bonus or a holiday allowance in which shares vest
C23_Witness ==
  \E k \in 1..Len(run.yearlyFinancials) :
    LET f == run.yearlyFinancials[k]
    IN  /\ run.rsuVestingByYear[k].grossRSUValue > 0
        /\ run.rsuVestingByYear[k].netRSUValue < run.rsuVestingByYear[k].grossRSUValue
        /\ f.grossIncome
             > MapGet(run.salaryByYear, data.planningSettings.startYear + k - 1)
        /\ f.totalGrossIncome > f.grossIncome
        /\ f.totalGrossIncome = run.taxResults[k].grossIncome

\* C24: in every year of the yearly financials of a run, totalNetIncome is the
\* netIncome of the tax result of that year plus 12 * healthcareBenefitMonthly:
\* the net salary (netIncome of the tax result without RSU, plus the benefit)
\* and the net RSU value (gross value minus the difference of the two total
\* taxes) add up to it.
C24_NetIncomeAddsUp ==
  \A k \in 1..Len(run.yearlyFinancials) :
    LET f == run.yearlyFinancials[k]
        healthcareBenefit == 12 * data.incomeSettings.healthcareBenefitMonthly
    IN  /\ f.netIncome = run.taxResultsWithoutRSU[k].netIncome + healthcareBenefit
        /\ f.netRSUValue
             = run.rsuVestingByYear[k].grossRSUValue
                 - (run.taxResults[k].totalTax - run.taxResultsWithoutRSU[k].totalTax)
        /\ f.totalNetIncome = f.netIncome + f.netRSUValue
        /\ f.totalNetIncome = run.taxResults[k].netIncome + healthcareBenefit

\* a year with a healthcare benefit in which shares vest and are taxed
C24_Witness ==
  \E k \in 1..Len(run.yearlyFinancials) :
    LET f == run.yearlyFinancials[k]
    IN  /\ data.incomeSettings.healthcareBenefitMonthly > 0
        /\ run.rsuVestingByYear[k].grossRSUValue > 0
        /\ run.taxResults[k].totalTax > run.taxResultsWithoutRSU[k].totalTax
        /\ 0 < f.netRSUValue
        /\ f.netRSUValue < f.rsuGrossValue
        /\ f.totalNetIncome > run.taxResults[k].netIncome

\* the fields of a vesting year that do not depend on the tax series
GrossPartOf(v) ==
  [ year |-> v.year,
    sharesVested |-> v.sharesVested,
    grantPriceAvg |-> v.grantPriceAvg,
    vestingPriceEur |-> v.vestingPriceEur,
    grossRSUValue |-> v.grossRSUValue,
    stockAppreciation |-> v.stockAppreciation,
    appreciationPercentage |-> v.appreciationPercentage ]

\* C25: once the second RSU pass of a run has been computed and until the run
\* ends, it has as many
\* years as the first pass and in every year the same sharesVested,
\* vestingPriceEur and grossRSUValue (only marginalTaxRate, taxPaid and
\* netRSUValue may differ), so that the grossIncome of the tax result of the
\* year is the salary income plus the gross RSU value of the second pass; the
\* same holds between the published tax results and the published vesting
\* series.
C25_PassConsistency ==
  /\ (~NotYet("rsu2") /\ pc # "idle") =>
    /\ Len(run.rsuVestingByYear) = Len(run.rsuVestingInitial)
    /\ Len(run.rsuVestingByYear) = data.planningSettings.projectionYears
    /\ \A k \in 1..Len(run.rsuVestingByYear) :
         LET first == run.rsuVestingInitial[k]
             final == run.rsuVestingByYear[k]
             salary == MapGet(run.salaryByYear, data.planningSettings.startYear + k - 1)
         IN  /\ final.sharesVested = first.sharesVested
             /\ final.vestingPriceEur = first.vestingPriceEur
             /\ final.grossRSUValue = first.grossRSUValue
             /\ GrossPartOf(final) = GrossPartOf(first)
             /\ run.taxResults[k].grossIncome
                  = SalaryIncomeOf(data.incomeSettings, salary) + final.grossRSUValue
  /\ publishedFrom # << >> =>
       LET d == publishedFrom[1]
           salaryByYear ==
             calculateSalaryByYear(d.incomeSettings.baseSalary,
                                   d.incomeSettings.salaryGrowthRate,
                                   d.planningSettings.startYear,
                                   d.planningSettings.projectionYears)
       IN  /\ Len(projections.taxResults) = Len(projections.rsuVestingByYear)
           /\ \A k \in 1..Len(projections.taxResults) :
                projections.taxResults[k].grossIncome
                  = SalaryIncomeOf(d.incomeSettings,
                                   MapGet(salaryByYear, d.planningSettings.startYear + k - 1))
                    + projections.rsuVestingByYear[k].grossRSUValue

\* a run in a later year of which shares vest at a grown price, and whose two
\* passes differ in the tax paid
C25_Witness ==
  /\ ~NotYet("rsu2")
  /\ pc # "idle"
  /\ \E k \in 2..Len(run.rsuVestingByYear) :
       /\ run.rsuVestingByYear[k].grossRSUValue > 0
       /\ run.rsuVestingByYear[k].vestingPriceEur > data.investmentSettings.currentStockPrice
       /\ run.rsuVestingByYear[k].taxPaid # run.rsuVestingInitial[k].taxPaid
       /\ run.rsuVestingByYear[k].netRSUValue # run.rsuVestingInitial[k].netRSUValue

\* C26: for every result of calculateTax with grossIncome >= 0 and 0 <=
\* pensionContributions <= grossIncome, totalTax <= totalTaxBeforeCredits,
\* where totalTaxBeforeCredits = incomeTax + socialContributions +
\* pensionContributions.
C26_CreditsNeverIncrease ==
  ( /\ fnResult.fn = "calculateTax"
    /\ fnCall.grossIncome >= 0
    /\ 0 <= fnResult.result.pensionContributions
    /\ fnResult.result.pensionContributions <= fnCall.grossIncome ) =>
    /\ fnResult.result.totalTaxBeforeCredits
         = fnResult.result.incomeTax + fnResult.result.socialContributions
             + fnResult.result.pensionContributions
    /\ fnResult.result.totalTax <= fnResult.result.totalTaxBeforeCredits

\* a result for a gross income of EUR 30,000 and pension contributions of
\* EUR 9,000, more than the income tax and the social contributions together:
\* the tax after credits is the pension contributions
C26_Witness ==
  /\ fnResult.fn = "calculateTax"
  /\ fnCall.grossIncome = Eur(30000)
  /\ fnResult.result.pensionContributions = Eur(9000)
  /\ fnResult.result.incomeTax + fnResult.result.socialContributions
       < fnResult.result.pensionContributions
  /\ fnResult.result.totalTax = 2 * fnResult.result.pensionContributions

\* the shares of a grant that vest over all the calendar years
TotalSharesVesting(grant) ==
  SumSeq([ k \in 1..Cardinality(VestingCheckYears) |->
             calculateSharesVestingInYear(grant, 2020 + k) ])

\* C27: for every grant in the settings store, the sum over all calendar
\* years of calculateSharesVestingInYear(grant, y), which is vestingYears *
\* grantShares * vestingPercentagePerYear, never exceeds grantShares, whichever
\* add or edit path created or changed the grant.
C27_NoOverVesting ==
  \A k \in 1..Len(data.rsuGrants) :
    LET grant == data.rsuGrants[k]
    IN  /\ TotalSharesVesting(grant)
             = grant.vestingYears
                 * MulRate(grant.grantShares, grant.vestingPercentagePerYear)
        /\ TotalSharesVesting(grant) <= grant.grantShares

\* the store holds a grant of the inputs form with 3 vesting years at 50 % a
\* year: one and a half times its shares vest
C27_Witness ==
  \E k \in 1..Len(data.rsuGrants) :
    LET grant == data.rsuGrants[k]
    IN  /\ grant.vestingYears = 3
        /\ grant.vestingPercentagePerYear = 50000
        /\ grant.grantShares > 0
        /\ 2 * TotalSharesVesting(grant) = 3 * grant.grantShares

\* C28: in every state reached from the default settings by the operations
\* of the pages, no two entries of data.expenseCategories share an id and no
\* two entries of data.rsuGrants share an id.
C28_UniqueIds ==
  /\ \A j, k \in 1..Len(data.expenseCategories) :
       j # k => data.expenseCategories[j].id # data.expenseCategories[k].id
  /\ \A j, k \in 1..Len(data.rsuGrants) :
       j # k => data.rsuGrants[j].id # data.rsuGrants[k].id

\* the sign-up flow has been completed with a rent: the category it adds
\* stands next to the default category of the same id
C28_Witness ==
  /\ setupCompleted
  /\ \E j, k \in 1..Len(data.expenseCategories) :
       /\ j < k
       /\ data.expenseCategories[j].id = <<"rent">>
       /\ data.expenseCategories[k].id = <<"rent">>
       /\ data.expenseCategories[j].monthlyAmount = Eur(1450)
       /\ data.expenseCategories[k].monthlyAmount = Eur(1000)

\* every section of the snapshot d2 but the named one is that of d
OtherSectionsSame(d, d2, section) ==
  /\ DOMAIN d2 = DOMAIN d
  /\ \A s \in (DOMAIN d) \ {section} : d2[s] = d[s]

\* the section of d2 is that of d but for the fields the partial update names
FieldsMerged(d, d2, section, settings) ==
  /\ OtherSectionsSame(d, d2, section)
  /\ DOMAIN d2[section] = DOMAIN d[section]
  /\ \A f \in DOMAIN d[section] :
       d2[section][f] = (IF f \in DOMAIN settings THEN settings[f] ELSE d[section][f])

\* the entries of the list d2[section] are those of d, but for the ones with
\* the given id, which are changed in place (update) or dropped (remove)
EntriesKept(d, d2, section, id, removed) ==
  LET Other(entry) == entry.id # id
  IN  /\ OtherSectionsSame(d, d2, section)
      /\ SelectSeq(d2[section], Other) = SelectSeq(d[section], Other)
      /\ IF removed
         THEN d2[section] = SelectSeq(d[section], Other)
         ELSE /\ Len(d2[section]) = Len(d[section])
              /\ \A k \in 1..Len(d[section]) :
                   /\ d2[section][k].id = d[section][k].id
                   /\ d[section][k].id # id => d2[section][k] = d[section][k]
      /\ (\A k \in 1..Len(d[section]) : d[section][k].id # id) => d2 = d

\* the ids of the entries of a list, and one that no entry has
IdsAndAbsent(entries) ==
  { entries[k].id : k \in 1..Len(entries) } \cup { <<"absent">> }

\* the store operations applied to the current snapshot
FrameOfUpdates ==
  /\ \A settings \in IncomePartials :
       FieldsMerged(data, updateIncomeSettings(data, settings), "incomeSettings", settings)
  /\ \A settings \in InvestmentPartials :
       FieldsMerged(data, updateInvestmentSettings(data, settings),
                    "investmentSettings", settings)
  /\ \A settings \in PlanningPartials :
       FieldsMerged(data, updatePlanningSettings(data, settings),
                    "planningSettings", settings)
  /\ \A id \in IdsAndAbsent(data.expenseCategories) :
       /\ \A amount \in ExpenseAmounts :
            EntriesKept(data, updateExpenseCategory(data, id, [monthlyAmount |-> amount]),
                        "expenseCategories", id, FALSE)
       /\ EntriesKept(data, removeExpenseCategory(data, id), "expenseCategories", id, TRUE)
  /\ \A id \in IdsAndAbsent(data.rsuGrants) :
       /\ \A newGrant \in GrantForms :
            EntriesKept(data, updateRSUGrant(data, id, SaveEditUpdates(newGrant)),
                        "rsuGrants", id, FALSE)
       /\ EntriesKept(data, removeRSUGrant(data, id), "rsuGrants", id, TRUE)

\* a page handler calls one store operation: at most one section changes,
\* and a change of a settings section keeps the fields the input sets never name
FrameOfStep ==
  (pc = "idle" /\ setupCompleted' = setupCompleted) =>
    /\ Cardinality({ s \in DOMAIN data : data'[s] # data[s] }) <= 1
    /\ data'.incomeSettings # data.incomeSettings =>
         \E settings \in IncomePartials :
           FieldsMerged(data, data', "incomeSettings", settings)
    /\ data'.investmentSettings # data.investmentSettings =>
         \E settings \in InvestmentPartials :
           FieldsMerged(data, data', "investmentSettings", settings)
    /\ data'.planningSettings # data.planningSettings =>
         \E settings \in PlanningPartials :
           FieldsMerged(data, data', "planningSettings", settings)

\* C29: each store operation changes only its own section of the snapshot:
\* updateIncomeSettings, updateInvestmentSettings and updatePlanningSettings
\* leave every field the partial update does not name and every other section
\* unchanged; updateExpenseCategory, removeExpenseCategory, updateRSUGrant and
\* removeRSUGrant leave the entries with a different id and all other sections
\* unchanged, and leave the snapshot as it is when no entry has the given id.
C29_FrameOfUpdates == [](FrameOfUpdates) /\ [][FrameOfStep]_vars

\* two settings updates have acted on the defaults: the base salary and the
\* stock price are changed, the other fields of both sections and the other
\* sections are the default ones
C29_Witness ==
  /\ data.incomeSettings = [defaultIncomeSettings EXCEPT !.baseSalary = Eur(12000)]
  /\ data.investmentSettings
       = [defaultInvestmentSettings EXCEPT !.currentStockPrice = Eur(120)]
  /\ data.planningSettings = defaultPlanningSettings
  /\ data.expenseCategories = defaultExpenseCategories
  /\ data.rsuGrants = defaultRSUGrants
  /\ now = 2

\* C30: the published metrics have totalRSUNetValue = totalRSUGrossValue -
\* totalRSUTaxPaid, each of the three being the sum over the projection years
\* of the field of the published rsuVestingByYear, and all three are 0 when no
\* shares vest in the projection window.
C30_RSUTotals ==
  LET vesting == projections.rsuVestingByYear
      n == Len(vesting)
  IN  /\ metrics.totalRSUGrossValue = SumSeq([k \in 1..n |-> vesting[k].grossRSUValue])
      /\ metrics.totalRSUTaxPaid = SumSeq([k \in 1..n |-> vesting[k].taxPaid])
      /\ metrics.totalRSUNetValue = SumSeq([k \in 1..n |-> vesting[k].netRSUValue])
      /\ metrics.totalRSUNetValue = metrics.totalRSUGrossValue - metrics.totalRSUTaxPaid
      /\ (\A k \in 1..n : vesting[k].sharesVested = 0) =>
           /\ metrics.totalRSUGrossValue = 0
           /\ metrics.totalRSUTaxPaid = 0
           /\ metrics.totalRSUNetValue = 0

\* published metrics of a run in two years of which shares vest and are
\* taxed, at a tax other than the one of the first pass
C30_Witness ==
  /\ publishedFrom # << >>
  /\ pc = "save"
  /\ metrics.totalRSUTaxPaid > 0
  /\ metrics.totalRSUNetValue > 0
  /\ metrics.totalRSUNetValue < metrics.totalRSUGrossValue
  /\ \E j, k \in 1..Len(projections.rsuVestingByYear) :
       /\ j < k
       /\ projections.rsuVestingByYear[j].sharesVested > 0
       /\ projections.rsuVestingByYear[k].sharesVested > 0
  /\ metrics.totalRSUTaxPaid
       # SumSeq([k \in 1..Len(run.rsuVestingInitial) |-> run.rsuVestingInitial[k].taxPaid])

\* published metrics of a run over several years in none of which shares
\* vest (the grant has been removed)
C30_WitnessNoShares ==
  /\ publishedFrom # << >>
  /\ Len(projections.rsuVestingByYear) >= 2
  /\ \A k \in 1..Len(projections.rsuVestingByYear) :
       projections.rsuVestingByYear[k].sharesVested = 0
  /\ metrics.totalRSUGrossValue = 0
====
